---- MODULE Spec2Model ----
(***************************************************************************)
(* Chunked transfer protocol of the voice/vision gateway.                  *)
(*                                                                         *)
(* One connection (one request.sid) is modelled, made either to the audio   *)
(* endpoint (routes/audio_websocket.py) or to the dual audio+image endpoint *)
(* (routes/vlm_websocket.py): the session registries audio_sessions and     *)
(* vlm_sessions, the files the sessions stream into, the events the         *)
(* handlers emit, and the background post-processing task.  Each socket     *)
(* handler is one atomic action (section 5 of the specification: the        *)
(* transport serialises delivery per connection); the background task runs  *)
(* in its own thread and is a separate process with its own steps.          *)
(***************************************************************************)
EXTENDS Integers, Sequences, FiniteSets, TLC

VARIABLES
    conn,            \* "new" | "open" | "closed": life of the connection
    endpoint,        \* "none" | "audio" | "vlm": the namespace connected to
    audio_sessions,  \* the registry: a function whose domain is {} or {SID}
    vlm_sessions,    \* the registry of the dual endpoint, likewise
    files,           \* every file created so far; a file handle is an index
    task,            \* position of the background task process_audio_task
    out,             \* events emitted by the last handler that ran
    op,              \* the last handler that ran
    accepted,        \* history: seqs taken so far on this connection
    clean,           \* history: the current session was sent only well-formed
                     \* packets of one total, each seq once, and no call raised
    delivered,       \* history: per data type, the seqs sent to the current
                     \* session while clean
    started,         \* history: post-processing tasks started for the
                     \* current session
    mp3_converter,   \* the PCMToMP3StreamConverter: its fields
    conv_pc,         \* "idle" | "pushing" | "flushed": use of the converter
    frame_lens,      \* history: len of the frame of each add_pcm_data call
    pushed,          \* history: the bytes given to add_pcm_data, in order
    chunks,          \* history: what the converter returned, call by call
    conv_raised,     \* history: a call of the converter raised
    pc,              \* position of the main driver streaming_chat_with_tts
    response,        \* the deltas generate_chat_response_stream yields
    frames_left,     \* frames the engine may still deliver
    consumed,        \* number of deltas taken from the generator
    assistant_response, \* the deltas taken, concatenated
    text_buffer,     \* the text not yet sent to the engine
    held,            \* history: number of deltas text_buffer holds
    segments,        \* history: the segments sent, with the deltas they hold
    engine_in,       \* the events the engine was sent, in the order sent
    ws,              \* "none" | "open" | "closed": the engine connection
    consumer_task,   \* "none" | "running" | "done" | "cancelled"
    mp3_task,        \* position of the transcoder task process_pcm_to_mp3
    pcm_queue,       \* the frame queue
    processing_active, \* the flag that keeps the transcoder loop running
    arrived,         \* history: the bytes audio_callback was given, in order
    dropped,         \* history: number of frames audio_callback dropped
    emitted,         \* the audio_stream events emitted to the client
    queue_empty_count, \* drain loop: consecutive polls that found no frame
    wait_cycles,     \* drain loop: polls made
    trailing_empty,  \* history: the last polls that saw an empty queue
    result,          \* "none" | "success" | "error": what the turn returned
    future,          \* "none" | "pending" | "timeout": future.result of the turn
    chat_result,     \* "none" | "success" | "failed": what the caller is given
    engine_errors    \* history: number of error events the engine has sent

\* the chunked transfer endpoints
wsVars ==
    <<conn, endpoint, audio_sessions, vlm_sessions, files, task, out, op,
      accepted, clean, delivered, started>>

\* the frame transcoder
convVars ==
    <<mp3_converter, conv_pc, frame_lens, pushed, chunks, conv_raised>>

\* one synthesis turn
ttsVars ==
    <<pc, response, frames_left, consumed, assistant_response, text_buffer, held,
      segments, engine_in, ws, consumer_task, mp3_task, pcm_queue,
      processing_active, arrived, dropped, emitted, queue_empty_count,
      wait_cycles, trailing_empty, result, future, chat_result, engine_errors>>

turnVars == <<convVars, ttsVars>>

vars == <<wsVars, turnVars>>

----------------------------------------------------------------------------
(* Bounds of the model *)

\* largest 'total' a client announces
MaxTotal == 3
\* largest 'total' a client of the dual endpoint announces
VlmMaxTotal == 2
\* files created per connection
MaxFiles == 2
\* calls of add_pcm_data made on one converter
MaxPushes == 3
\* deltas the text generator yields in one turn
MaxDeltas == 3
\* end signals of one session that start a task
MaxStarts == 2
\* error events the engine sends in one turn
MaxErrors == 1

\* frames the engine delivers in one turn
MaxFrames == 3

(* Program constants *)

\* cap on the encoded payload length of the audio endpoint
AUDIO_MAX_ENCODED == 11000
\* cap on the encoded payload length of the dual endpoint, both data types
VLM_MAX_ENCODED == 50000
\* config.TTS_SAMPLE_RATE
TTS_SAMPLE_RATE == 24000
\* length of the stripped text buffer that triggers a synthesis
SEGMENT_CHARS == 50
\* polls of the drain loop that must find the queue empty in a row
EMPTY_POLLS == 5
\* seconds the turn waits for the consumer task
CONSUMER_TIMEOUT == 180

\* seconds the caller waits for the turn
FUTURE_TIMEOUT == 120

\* polls after which the drain loop gives up
max_wait_cycles == 100

SID == "sid1"

----------------------------------------------------------------------------
(* Dictionaries *)

EmptyMap == [x \in {} |-> 0]

Put(m, k, v) == [x \in (DOMAIN m) \cup {k} |-> IF x = k THEN v ELSE m[x]]

Remove(m, k) == [x \in (DOMAIN m) \ {k} |-> m[x]]

\* Only({e(x) : x \in {v}}) is e(v), with v evaluated once
Only(S) == CHOOSE x \in S : TRUE

----------------------------------------------------------------------------
(* base64.b64decode, non-strict mode: characters outside the alphabet are   *)
(* skipped, a completed pad sequence ends the parse, and a trailing partial *)
(* quad raises.  A wire string is [body, fill]: the characters of body      *)
(* followed by fill line feeds (which the decoder skips).                   *)

B64Chars ==
    <<"A","B","C","D","E","F","G","H","I","J","K","L","M","N","O","P",
      "Q","R","S","T","U","V","W","X","Y","Z","a","b","c","d","e","f",
      "g","h","i","j","k","l","m","n","o","p","q","r","s","t","u","v",
      "w","x","y","z","0","1","2","3","4","5","6","7","8","9","+","/">>

B64Alphabet == {B64Chars[i] : i \in 1..Len(B64Chars)}

\* the 6-bit value of each character of the alphabet
B64Value == [c \in B64Alphabet |-> (CHOOSE i \in 1..Len(B64Chars) : B64Chars[i] = c) - 1]

IsB64Char(c) == c \in B64Alphabet

B64Index(c) == B64Value[c]

RECURSIVE A2B(_, _, _, _, _, _)
A2B(s, i, quad_pos, leftchar, pads, bin) ==
    IF i > Len(s) THEN [ok |-> quad_pos = 0, bytes |-> bin]
    ELSE IF s[i] = "=" THEN
        IF quad_pos >= 2 /\ quad_pos + pads + 1 >= 4
        THEN [ok |-> TRUE, bytes |-> bin]
        ELSE A2B(s, i + 1, quad_pos, leftchar,
                 IF quad_pos >= 2 THEN pads + 1 ELSE pads, bin)
    ELSE IF ~IsB64Char(s[i]) THEN A2B(s, i + 1, quad_pos, leftchar, pads, bin)
    ELSE LET v == B64Index(s[i]) IN
        CASE quad_pos = 0 -> A2B(s, i + 1, 1, v, 0, bin)
          [] quad_pos = 1 ->
                A2B(s, i + 1, 2, v % 16, 0, Append(bin, leftchar * 4 + v \div 16))
          [] quad_pos = 2 ->
                A2B(s, i + 1, 3, v % 4, 0, Append(bin, leftchar * 16 + v \div 4))
          [] OTHER ->
                A2B(s, i + 1, 0, 0, 0, Append(bin, leftchar * 64 + v))

\* the fill characters are line feeds: skipped wherever they stand
B64DecodeString(d) == A2B(d.body, 1, 0, 0, 0, <<>>)

StrLen(d) == Len(d.body) + d.fill

----------------------------------------------------------------------------
(* Messages a client can send *)

\* base64 of the single byte b
EncodeByte(b) ==
    <<B64Chars[b \div 4 + 1], B64Chars[(b % 4) * 16 + 1], "=", "=">>

\* the payload of packet seq is the byte 64 + seq; packets with an even seq
\* are filled with line feeds up to exactly the cap
DataFor(seq) ==
    [body |-> EncodeByte(64 + seq),
     fill |-> IF seq % 2 = 0 THEN AUDIO_MAX_ENCODED - 4 ELSE 0]
\* another payload, "QkM=": the bytes 66 67
DataAlt == [body |-> <<"Q", "k", "M", "=">>, fill |-> 0]
\* "QQ=": incorrect padding, b64decode raises
DataBadPad == [body |-> <<"Q", "Q", "=">>, fill |-> 0]
\* one character over the cap
DataOversize == [body |-> <<"Q", "Q", "=", "=">>, fill |-> AUDIO_MAX_ENCODED - 3]
\* one character over the cap and incorrectly padded
DataOversizeBad == [body |-> <<"Q", "Q", "=">>, fill |-> AUDIO_MAX_ENCODED - 2]

NoData == [body |-> <<>>, fill |-> 0]

DataTypes == {"audio", "image"}

\* the dual endpoint: the payload of packet seq of a type is the byte
\* 64 + seq (audio) or 96 + seq (image); packets with an even seq are filled
\* with line feeds up to exactly the cap of that endpoint
VlmDataFor(data_type, seq) ==
    [body |-> EncodeByte((IF data_type = "audio" THEN 64 ELSE 96) + seq),
     fill |-> IF seq % 2 = 0 THEN VLM_MAX_ENCODED - 4 ELSE 0]
\* one character over the cap of the dual endpoint
VlmDataOversize == [body |-> <<"Q", "Q", "=", "=">>, fill |-> VLM_MAX_ENCODED - 3]
\* one character over that cap and incorrectly padded
VlmDataOversizeBad == [body |-> <<"Q", "Q", "=">>, fill |-> VLM_MAX_ENCODED - 2]

\* base64.b64decode on the strings clients send, decoded once
B64Table ==
    [d \in {DataFor(s) : s \in 0..(MaxTotal + 1)}
            \cup {VlmDataFor(ty, s) : ty \in DataTypes, s \in 0..(VlmMaxTotal + 1)}
            \cup {DataAlt, DataBadPad, DataOversize, VlmDataOversize, NoData,
                  DataOversizeBad, VlmDataOversizeBad}
        |-> B64DecodeString(d)]

B64Decode(d) == B64Table[d]

\* a JSON value: an int n, true or false, a str d, or null
IntV(n) == [t |-> "int", n |-> n, d |-> NoData]
BoolV(b) == [t |-> "bool", n |-> IF b THEN 1 ELSE 0, d |-> NoData]
StrV(d) == [t |-> "str", n |-> 0, d |-> d]
NoneV == [t |-> "none", n |-> 0, d |-> NoData]
\* a short str such as 'audio', kept as one token
WordV(w) == StrV([body |-> <<w>>, fill |-> 0])

\* isinstance(v, int): bool is a subclass of int, True is 1 and False is 0
IsInt(v) == v.t \in {"int", "bool"}

Packet(seq, total, d) ==
    [text |-> FALSE, json |-> "object",
     fields |-> [f \in {"seq", "total", "data"} |->
                    CASE f = "seq" -> IntV(seq)
                      [] f = "total" -> IntV(total)
                      [] OTHER -> StrV(d)]]

Without(m, f) == [m EXCEPT !.fields = Remove(m.fields, f)]

WithField(m, f, v) == [m EXCEPT !.fields = Put(m.fields, f, v)]

\* well-formed packets: 1 <= seq <= total, and {"seq": true, "total": true}
GoodPackets ==
    UNION {{Packet(s, t, DataFor(s)) : s \in 1..t} : t \in 1..MaxTotal}
    \cup {[text |-> FALSE, json |-> "object",
           fields |-> [f \in {"seq", "total", "data"} |->
                          IF f = "data" THEN StrV(DataFor(1)) ELSE BoolV(TRUE)]]}

\* one message for every way validation can fail
Malformed ==
    { [text |-> TRUE, json |-> "invalid", fields |-> EmptyMap],
      [text |-> TRUE, json |-> "list", fields |-> EmptyMap],
      [text |-> FALSE, json |-> "list", fields |-> EmptyMap],
      Without(Packet(1, 1, DataFor(1)), "seq"),
      Without(Packet(1, 1, DataFor(1)), "total"),
      Without(Packet(1, 1, DataFor(1)), "data"),
      WithField(Packet(1, 1, DataFor(1)), "seq", StrV(DataFor(1))),
      WithField(Packet(1, 1, DataFor(1)), "total", NoneV),
      WithField(Packet(1, 1, DataFor(1)), "data", IntV(7)),
      Packet(0, 1, DataFor(1)),
      Packet(2, 1, DataFor(1)),
      Packet(1, 0, DataFor(1)),
      Packet(1, 1, DataOversize),
      Packet(1, 1, DataOversizeBad),
      Packet(1, 1, DataBadPad),
      Packet(2, MaxTotal, DataBadPad) }

Messages == GoodPackets \cup Malformed

\* messages of the dual endpoint
VlmPacket(seq, total, data_type, d) ==
    [text |-> FALSE, json |-> "object",
     fields |-> [f \in {"seq", "total", "type", "data"} |->
                    CASE f = "seq" -> IntV(seq)
                      [] f = "total" -> IntV(total)
                      [] f = "type" -> WordV(data_type)
                      [] OTHER -> StrV(d)]]

EndSignal ==
    [text |-> FALSE, json |-> "object",
     fields |-> [f \in {"type"} |-> WordV("end")]]

VlmGoodPackets ==
    UNION {{VlmPacket(s, t, ty, VlmDataFor(ty, s)) : s \in 1..t, ty \in DataTypes}
              : t \in 1..VlmMaxTotal}

VlmMalformed ==
    LET p == VlmPacket(1, 1, "audio", VlmDataFor("audio", 1)) IN
    { [text |-> TRUE, json |-> "invalid", fields |-> EmptyMap],
      [text |-> FALSE, json |-> "list", fields |-> EmptyMap],
      Without(p, "seq"), Without(p, "total"), Without(p, "type"),
      Without(p, "data"),
      WithField(p, "seq", StrV(DataFor(1))),
      WithField(p, "total", NoneV),
      WithField(p, "type", WordV("video")),
      WithField(p, "type", IntV(1)),
      WithField(p, "data", IntV(7)),
      VlmPacket(0, 1, "image", VlmDataFor("image", 1)),
      VlmPacket(2, 1, "audio", VlmDataFor("audio", 1)),
      VlmPacket(1, 1, "image", VlmDataOversize),
      VlmPacket(1, 1, "image", VlmDataOversizeBad),
      VlmPacket(1, 1, "audio", DataBadPad) }

VlmMessages == VlmGoodPackets \cup VlmMalformed \cup {EndSignal}

----------------------------------------------------------------------------
(* Events *)

Error(kind, seqs) == [event |-> "error", kind |-> kind, seqs |-> seqs]

PacketAck(seq, received, total) ==
    [event |-> "packet_ack", seq |-> seq, received |-> received, total |-> total]

VlmPacketAck(seq, data_type, received, total) ==
    [event |-> "packet_ack", seq |-> seq, type |-> data_type,
     received |-> received, total |-> total]

Connected == [event |-> "connected"]

IsError(e) == e.event = "error"

IsAck(e) == e.event = "packet_ack"

----------------------------------------------------------------------------
(* Files.  A handle is the index of the file in files; 0 is None.           *)

NewFile == [content |-> <<>>, open |-> TRUE, closes |-> 0]

\* file.close(): closing a closed file is allowed by Python, and counted here
CloseFile(fs, h) == [fs EXCEPT ![h].open = FALSE, ![h].closes = @ + 1]

\* mutant: every write truncates the file
WriteFile_Truncating(fs, h, bytes) == [fs EXCEPT ![h].content = bytes]

\* file.write(bytes); file.flush()
WriteFile(fs, h, bytes) == [fs EXCEPT ![h].content = @ \o bytes]

----------------------------------------------------------------------------
(* handle_audio_connect and the session it creates *)

NewAudioSession ==
    [packets |-> EmptyMap, total_packets |-> 0, received_count |-> 0,
     expected_seq |-> 1, file_handle |-> 0, filepath |-> 0]

----------------------------------------------------------------------------
(* handle_audio_message, block by block *)

\* json.loads of a str message, and the object check
ParseMessage(m) ==
    IF m.text /\ m.json = "invalid" THEN "json"
    ELSE IF m.json # "object" THEN "format"
    ELSE "ok"

\* variant: the payload is decoded before its length is looked at
ValidatePacket_DecodeFirst(m, cap) ==
    LET f == m.fields IN
    IF ParseMessage(m) # "ok" THEN ParseMessage(m)
    ELSE IF "seq" \notin DOMAIN f \/ "total" \notin DOMAIN f \/ "data" \notin DOMAIN f
        THEN "missing"
    ELSE IF ~IsInt(f["seq"]) \/ ~IsInt(f["total"]) \/ f["data"].t # "str"
        THEN "type"
    ELSE IF f["seq"].n < 1 \/ f["seq"].n > f["total"].n THEN "range"
    ELSE IF ~B64Decode(f["data"].d).ok THEN "base64"
    ELSE IF StrLen(f["data"].d) > cap THEN "size"
    ELSE "ok"

\* required fields, types, range, size cap, base64 check: the first failure
ValidatePacket(m, cap) ==
    LET f == m.fields IN
    IF ParseMessage(m) # "ok" THEN ParseMessage(m)
    ELSE IF "seq" \notin DOMAIN f \/ "total" \notin DOMAIN f \/ "data" \notin DOMAIN f
        THEN "missing"
    ELSE IF ~IsInt(f["seq"]) \/ ~IsInt(f["total"]) \/ f["data"].t # "str"
        THEN "type"
    ELSE IF f["seq"].n < 1 \/ f["seq"].n > f["total"].n THEN "range"
    ELSE IF StrLen(f["data"].d) > cap THEN "size"
    ELSE IF ~B64Decode(f["data"].d).ok THEN "base64"
    ELSE "ok"

\* what a handler call leaves behind
Result(sessions, fs, events, start, fault) ==
    [sessions |-> sessions, files |-> fs, out |-> events, start |-> start,
     fault |-> fault]

\* session_id not in audio_sessions: create the session
GetOrInitSession(sessions) ==
    IF SID \in DOMAIN sessions THEN sessions ELSE Put(sessions, SID, NewAudioSession)

\* mutant: every packet sets total_packets
SetTotalAndOpen_Overwrite(session, fs, total, ofail) ==
    IF session.total_packets = 0
    THEN IF ofail
         THEN [session |-> [session EXCEPT !.total_packets = total,
                                            !.filepath = -1],
               files |-> fs, err |-> "open"]
         ELSE [session |-> [session EXCEPT !.total_packets = total,
                                            !.filepath = Len(fs) + 1,
                                            !.file_handle = Len(fs) + 1],
               files |-> Append(fs, NewFile), err |-> "ok"]
    ELSE [session |-> [session EXCEPT !.total_packets = total],
          files |-> fs, err |-> "ok"]

\* the first packet fixes total_packets and opens the file
SetTotalAndOpen(session, fs, total, ofail) ==
    IF session.total_packets = 0
    THEN IF ofail
         THEN [session |-> [session EXCEPT !.total_packets = total,
                                            !.filepath = -1],
               files |-> fs, err |-> "open"]
         ELSE [session |-> [session EXCEPT !.total_packets = total,
                                            !.filepath = Len(fs) + 1,
                                            !.file_handle = Len(fs) + 1],
               files |-> Append(fs, NewFile), err |-> "ok"]
    ELSE IF session.total_packets # total
         THEN [session |-> session, files |-> fs, err |-> "total"]
         ELSE [session |-> session, files |-> fs, err |-> "ok"]

\* mutant: only the buffered packets are looked up
IsDuplicate_PendingOnly(session, seq) == seq \in DOMAIN session.packets

\* seq in session['packets'] or seq < session['expected_seq']
IsDuplicate(session, seq) ==
    seq \in DOMAIN session.packets \/ seq < session.expected_seq

\* mutant: an if in place of the while, one buffered packet is drained
DrainPending_OnlyOne(session, fs, k, wfail) ==
    IF session.expected_seq \in DOMAIN session.packets
    THEN LET next_seq == session.expected_seq
             popped == [session EXCEPT !.packets = Remove(@, next_seq)]
         IN  IF k = wfail \/ ~fs[session.file_handle].open
             THEN [session |-> popped, files |-> fs, raised |-> TRUE]
             ELSE [session |-> [popped EXCEPT !.expected_seq = @ + 1,
                                               !.received_count = @ + 1],
                   files |-> WriteFile(fs, session.file_handle,
                                       B64Decode(session.packets[next_seq]).bytes),
                   raised |-> FALSE]
    ELSE [session |-> session, files |-> fs, raised |-> FALSE]

\* variant: the buffered packet is read and left in packets
RECURSIVE DrainPending_NoPop(_, _, _, _)
DrainPending_NoPop(session, fs, k, wfail) ==
    IF session.expected_seq \in DOMAIN session.packets
    THEN IF k = wfail \/ ~fs[session.file_handle].open
         THEN [session |-> session, files |-> fs, raised |-> TRUE]
         ELSE DrainPending_NoPop(
                 [session EXCEPT !.expected_seq = @ + 1, !.received_count = @ + 1],
                 WriteFile(fs, session.file_handle,
                           B64Decode(session.packets[session.expected_seq]).bytes),
                 k + 1, wfail)
    ELSE [session |-> session, files |-> fs, raised |-> FALSE]

\* while session['expected_seq'] in session['packets']: pop, decode, write.
\* k numbers the write() calls of this handler call; write number wfail raises.
RECURSIVE DrainPending(_, _, _, _)
DrainPending(session, fs, k, wfail) ==
    IF session.expected_seq \in DOMAIN session.packets
    THEN LET next_seq == session.expected_seq
             next_data == session.packets[next_seq]
             popped == [session EXCEPT !.packets = Remove(@, next_seq)]
         IN  IF k = wfail \/ ~fs[session.file_handle].open
             THEN [session |-> popped, files |-> fs, raised |-> TRUE]
             ELSE DrainPending(
                     [popped EXCEPT !.expected_seq = @ + 1, !.received_count = @ + 1],
                     WriteFile(fs, session.file_handle, B64Decode(next_data).bytes),
                     k + 1, wfail)
    ELSE [session |-> session, files |-> fs, raised |-> FALSE]

\* mutant: the in-order packet is written and the buffered ones are left
StorePacket_NoDrain(session, fs, seq, audio_data, wfail) ==
    IF seq = session.expected_seq
    THEN IF wfail = 1 \/ ~fs[session.file_handle].open
         THEN [session |-> session, files |-> fs, raised |-> TRUE]
         ELSE [session |-> [session EXCEPT !.expected_seq = @ + 1,
                                            !.received_count = @ + 1],
               files |-> WriteFile(fs, session.file_handle, B64Decode(audio_data).bytes),
               raised |-> FALSE]
    ELSE [session |-> [session EXCEPT !.packets = Put(@, seq, audio_data)],
          files |-> fs, raised |-> FALSE]

\* variant: a buffered packet is counted when it arrives
StorePacket_CountsBuffered(session, fs, seq, audio_data, wfail) ==
    IF seq = session.expected_seq
    THEN IF wfail = 1 \/ ~fs[session.file_handle].open
         THEN [session |-> session, files |-> fs, raised |-> TRUE]
         ELSE DrainPending(
                 [session EXCEPT !.expected_seq = @ + 1, !.received_count = @ + 1],
                 WriteFile(fs, session.file_handle, B64Decode(audio_data).bytes),
                 2, wfail)
    ELSE [session |-> [session EXCEPT !.packets = Put(@, seq, audio_data),
                                       !.received_count = @ + 1],
          files |-> fs, raised |-> FALSE]

\* the in-order path and the out-of-order path
StorePacket(session, fs, seq, audio_data, wfail) ==
    IF seq = session.expected_seq
    THEN IF wfail = 1 \/ ~fs[session.file_handle].open
         THEN [session |-> session, files |-> fs, raised |-> TRUE]
         ELSE DrainPending(
                 [session EXCEPT !.expected_seq = @ + 1, !.received_count = @ + 1],
                 WriteFile(fs, session.file_handle, B64Decode(audio_data).bytes),
                 2, wfail)
    ELSE [session |-> [session EXCEPT !.packets = Put(@, seq, audio_data)],
          files |-> fs, raised |-> FALSE]

\* mutant: the closed handle stays in the session
CompletionCheck_KeepsHandle(session, fs) ==
    IF session.received_count = session.total_packets
    THEN [session |-> session, files |-> CloseFile(fs, session.file_handle),
          out |-> <<>>, start |-> TRUE]
    ELSE [session |-> session, files |-> fs, out |-> <<>>, start |-> FALSE]

\* variant: the handle is dropped and the file is left open
CompletionCheck_LeavesOpen(session, fs) ==
    IF session.received_count = session.total_packets
    THEN LET done == [session EXCEPT !.file_handle = 0]
         IN  IF DOMAIN session.packets # {}
             THEN [session |-> done, files |-> fs,
                   out |-> <<Error("incomplete", DOMAIN session.packets)>>,
                   start |-> FALSE]
             ELSE [session |-> done, files |-> fs, out |-> <<>>, start |-> TRUE]
    ELSE [session |-> session, files |-> fs, out |-> <<>>, start |-> FALSE]

\* received_count == total_packets: close the file, report what is left in
\* packets or start the background task
CompletionCheck(session, fs) ==
    IF session.received_count = session.total_packets
    THEN LET closed == IF session.file_handle # 0
                       THEN CloseFile(fs, session.file_handle) ELSE fs
             done == [session EXCEPT !.file_handle = 0]
         IN  IF DOMAIN session.packets # {}
             THEN [session |-> done, files |-> closed,
                   out |-> <<Error("incomplete", DOMAIN session.packets)>>,
                   start |-> FALSE]
             ELSE [session |-> done, files |-> closed, out |-> <<>>, start |-> TRUE]
    ELSE [session |-> session, files |-> fs, out |-> <<>>, start |-> FALSE]

\* emit('packet_ack', {seq, received, total})
AckFor(session, seq) ==
    PacketAck(seq, session.received_count, session.total_packets)

\* variant: the error is reported and the file is left open
ExceptionCleanup_NoClose(sessions, fs) ==
    Result(sessions, fs, <<Error("exception", {})>>, FALSE, TRUE)

\* except Exception: close the file handle of the registered session
ExceptionCleanup(sessions, fs) ==
    IF SID \in DOMAIN sessions /\ sessions[SID].file_handle # 0
    THEN Result([sessions EXCEPT ![SID].file_handle = 0],
                CloseFile(fs, sessions[SID].file_handle),
                <<Error("exception", {})>>, FALSE, TRUE)
    ELSE Result(sessions, fs, <<Error("exception", {})>>, FALSE, TRUE)

\* the whole handler: message m, with write number wfail raising (0: none)
\* and open() raising when ofail.  The steps are bound in the order verdict
\* (validation), opened (first packet), stored (write or buffer).
HandleAudioMessage(sessions, fs, m, wfail, ofail) ==
    Only({
    IF verdict # "ok"
    THEN Result(sessions, fs, <<Error(verdict, {})>>, FALSE, FALSE)
    ELSE
    LET seq == m.fields["seq"].n
        total == m.fields["total"].n
        audio_data == m.fields["data"].d
        sessions1 == GetOrInitSession(sessions)
    IN
    Only({
    LET sessions2 == [sessions1 EXCEPT ![SID] = opened.session] IN
    IF opened.err = "open"
    THEN Result(sessions2, opened.files, <<Error("open", {})>>, FALSE, TRUE)
    ELSE IF opened.err = "total"
    THEN Result(sessions2, opened.files, <<Error("total", {total})>>, FALSE, FALSE)
    ELSE IF opened.session.file_handle = 0
    THEN Result(sessions2, opened.files, <<Error("handle", {})>>, FALSE, FALSE)
    ELSE IF IsDuplicate(opened.session, seq)
    THEN Result(sessions2, opened.files, <<Error("duplicate", {seq})>>, FALSE, FALSE)
    ELSE IF ~B64Decode(audio_data).ok
    THEN Result(sessions2, opened.files, <<Error("decode", {})>>, FALSE, FALSE)
    ELSE
    Only({
    LET sessions3 == [sessions2 EXCEPT ![SID] = stored.session] IN
    IF stored.raised THEN ExceptionCleanup(sessions3, stored.files)
    ELSE
    LET ack == AckFor(stored.session, seq)
        checked == CompletionCheck(stored.session, stored.files)
    IN  Result([sessions3 EXCEPT ![SID] = checked.session], checked.files,
               <<ack>> \o checked.out, checked.start, FALSE)
    : stored \in {StorePacket(opened.session, opened.files, seq, audio_data,
                              wfail)} })
    : opened \in {SetTotalAndOpen(sessions1[SID], fs, total, ofail)} })
    : verdict \in {ValidatePacket(m, AUDIO_MAX_ENCODED)} })

----------------------------------------------------------------------------
(* handle_vlm_connect and the session it creates.  The fields of one data   *)
(* type are grouped: session[t].packets is session['<t>_packets'], and so   *)
(* on for total, received, expected_seq, file_handle, filepath, complete.   *)

NewTransfer ==
    [packets |-> EmptyMap, total |-> 0, received |-> 0, expected_seq |-> 1,
     file_handle |-> 0, filepath |-> 0, complete |-> FALSE]

NewVlmSession ==
    [audio |-> NewTransfer, image |-> NewTransfer, end_received |-> FALSE,
     current_data_type |-> "none"]

Other(data_type) == IF data_type = "audio" THEN "image" ELSE "audio"

----------------------------------------------------------------------------
(* handle_vlm_message, block by block *)

\* json.loads of a str message, and the object check
ParseVlmMessage(m) ==
    IF m.text /\ m.json = "invalid" THEN "json"
    ELSE IF m.json # "object" THEN "format"
    ELSE "ok"

\* data.get('type') == 'end'
IsEndSignal(m) ==
    /\ ParseVlmMessage(m) = "ok"
    /\ "type" \in DOMAIN m.fields
    /\ m.fields["type"] = WordV("end")

\* mutant: the base64 check is missing
ValidateVlmPacket_NoBase64(m, cap) ==
    LET f == m.fields IN
    IF ParseVlmMessage(m) # "ok" THEN ParseVlmMessage(m)
    ELSE IF {"seq", "total", "type", "data"} \ DOMAIN f # {} THEN "missing"
    ELSE IF \/ ~IsInt(f["seq"]) \/ ~IsInt(f["total"])
            \/ f["type"] \notin {WordV("audio"), WordV("image")}
        THEN "type"
    ELSE IF f["data"].t # "str" THEN "datatype"
    ELSE IF f["seq"].n < 1 \/ f["seq"].n > f["total"].n THEN "range"
    ELSE IF StrLen(f["data"].d) > cap THEN "size"
    ELSE "ok"

\* required fields, types, range, size cap, base64 check of a message that
\* is not the end signal: the first failure
ValidateVlmPacket(m, cap) ==
    LET f == m.fields IN
    IF ParseVlmMessage(m) # "ok" THEN ParseVlmMessage(m)
    ELSE IF {"seq", "total", "type", "data"} \ DOMAIN f # {} THEN "missing"
    ELSE IF \/ ~IsInt(f["seq"]) \/ ~IsInt(f["total"])
            \/ f["type"] \notin {WordV("audio"), WordV("image")}
        THEN "type"
    ELSE IF f["data"].t # "str" THEN "datatype"
    ELSE IF f["seq"].n < 1 \/ f["seq"].n > f["total"].n THEN "range"
    ELSE IF StrLen(f["data"].d) > cap THEN "size"
    ELSE IF ~B64Decode(f["data"].d).ok THEN "base64"
    ELSE "ok"

\* if session_id not in vlm_sessions: handle_vlm_connect(), which emits
\* 'connected' again
GetOrInitVlmSession(sessions) ==
    IF SID \in DOMAIN sessions
    THEN [sessions |-> sessions, out |-> <<>>]
    ELSE [sessions |-> Put(sessions, SID, NewVlmSession), out |-> <<Connected>>]

\* variant: the type of the newest packet becomes the current type
SwitchDataType_Always(session, data_type) ==
    [session |-> [session EXCEPT !.current_data_type = data_type], err |-> "ok"]

\* process_data_packet: the two data types must not interleave
SwitchDataType(session, data_type) ==
    IF session.current_data_type = "none"
    THEN [session |-> [session EXCEPT !.current_data_type = data_type],
          err |-> "ok"]
    ELSE IF session.current_data_type # data_type
    THEN IF /\ ~session[data_type].complete
            /\ session.current_data_type = Other(data_type)
            /\ ~session[Other(data_type)].complete
         THEN [session |-> session, err |-> "mixed"]
         ELSE [session |-> [session EXCEPT !.current_data_type = data_type],
               err |-> "ok"]
    ELSE [session |-> session, err |-> "ok"]

\* while session['<t>_expected_seq'] in session['<t>_packets']: pop, decode,
\* write.  k numbers the write() calls of this handler call; write number
\* wfail raises.
RECURSIVE DrainTransfer(_, _, _, _)
DrainTransfer(tr, fs, k, wfail) ==
    IF tr.expected_seq \in DOMAIN tr.packets
    THEN LET next_seq == tr.expected_seq
             next_data == tr.packets[next_seq]
             popped == [tr EXCEPT !.packets = Remove(@, next_seq)]
         IN  IF k = wfail \/ ~fs[tr.file_handle].open
             THEN [tr |-> popped, files |-> fs, raised |-> TRUE]
             ELSE DrainTransfer(
                     [popped EXCEPT !.expected_seq = @ + 1, !.received = @ + 1],
                     WriteFile(fs, tr.file_handle, B64Decode(next_data).bytes),
                     k + 1, wfail)
    ELSE [tr |-> tr, files |-> fs, raised |-> FALSE]

\* what process_audio_packet / process_image_packet leave behind: the fields
\* of the type, the files, the events, the return value, and whether an
\* exception was raised and swallowed
Processed(tr, fs, events, success, fault) ==
    [tr |-> tr, files |-> fs, out |-> events, success |-> success,
     fault |-> fault]

\* received == total: close the file, report what is left in packets or set
\* the complete flag
CompleteTransfer(tr, fs) ==
    IF tr.received = tr.total
    THEN LET closed == IF tr.file_handle # 0
                       THEN CloseFile(fs, tr.file_handle) ELSE fs
             done == [tr EXCEPT !.file_handle = 0]
         IN  IF DOMAIN tr.packets # {}
             THEN Processed(done, closed,
                            <<Error("incomplete", DOMAIN tr.packets)>>,
                            FALSE, FALSE)
             ELSE Processed([done EXCEPT !.complete = TRUE], closed, <<>>,
                            TRUE, FALSE)
    ELSE Processed(tr, fs, <<>>, TRUE, FALSE)

\* process_audio_packet and process_image_packet (the same code on the
\* fields of their type); an exception of open() or write() is logged and
\* the function returns False
ProcessTypedPacket(tr, fs, seq, total, binary_data, wfail, ofail) ==
    IF tr.total = 0 /\ ofail
    THEN Processed([tr EXCEPT !.total = total, !.filepath = -1], fs, <<>>,
                   FALSE, TRUE)
    ELSE IF tr.total # 0 /\ tr.total # total
    THEN Processed(tr, fs, <<Error("total", {total})>>, FALSE, FALSE)
    ELSE
    LET tr1 == IF tr.total = 0
               THEN [tr EXCEPT !.total = total, !.filepath = Len(fs) + 1,
                               !.file_handle = Len(fs) + 1]
               ELSE tr
        fs1 == IF tr.total = 0 THEN Append(fs, NewFile) ELSE fs
    IN
    IF tr1.file_handle = 0
    THEN Processed(tr1, fs1, <<Error("handle", {})>>, FALSE, FALSE)
    ELSE IF seq \in DOMAIN tr1.packets \/ seq < tr1.expected_seq
    THEN Processed(tr1, fs1, <<Error("duplicate", {seq})>>, FALSE, FALSE)
    ELSE IF ~B64Decode(binary_data).ok
    THEN Processed(tr1, fs1, <<Error("decode", {})>>, FALSE, FALSE)
    ELSE IF seq = tr1.expected_seq
    THEN IF wfail = 1 \/ ~fs1[tr1.file_handle].open
         THEN Processed(tr1, fs1, <<>>, FALSE, TRUE)
         ELSE Only({
                  IF drained.raised
                  THEN Processed(drained.tr, drained.files, <<>>, FALSE, TRUE)
                  ELSE CompleteTransfer(drained.tr, drained.files)
                  : drained \in {DrainTransfer(
                        [tr1 EXCEPT !.expected_seq = @ + 1, !.received = @ + 1],
                        WriteFile(fs1, tr1.file_handle,
                                  B64Decode(binary_data).bytes),
                        2, wfail)} })
    ELSE CompleteTransfer([tr1 EXCEPT !.packets = Put(@, seq, binary_data)], fs1)

\* mutant: both branches report the audio counters
VlmAckFor_AudioCounters(session, seq, data_type) ==
    VlmPacketAck(seq, data_type, session.audio.received, session.audio.total)

\* emit('packet_ack', {seq, type, received, total}), one branch per type
VlmAckFor(session, seq, data_type) ==
    VlmPacketAck(seq, data_type, session[data_type].received,
                 session[data_type].total)

\* handle_end_signal
HandleEndSignal(sessions, fs) ==
    IF SID \notin DOMAIN sessions
    THEN Result(sessions, fs, <<Error("nosession", {})>>, FALSE, FALSE)
    ELSE
    LET session == [sessions[SID] EXCEPT !.end_received = TRUE]
        sessions1 == [sessions EXCEPT ![SID] = session]
    IN
    IF session.audio.total = 0 /\ session.image.total = 0
    THEN Result(sessions1, fs, <<Error("nodata", {})>>, FALSE, FALSE)
    ELSE IF session.audio.total > 0 /\ ~session.audio.complete
    THEN Result(sessions1, fs, <<Error("audio_incomplete", {})>>, FALSE, FALSE)
    ELSE IF session.image.total > 0 /\ ~session.image.complete
    THEN Result(sessions1, fs, <<Error("image_incomplete", {})>>, FALSE, FALSE)
    ELSE Result(sessions1, fs, <<>>, TRUE, FALSE)

\* the whole handler: message m, with write number wfail raising (0: none)
\* and open() raising when ofail.  The steps are bound in the order verdict
\* (validation), switched (process_data_packet), done (process_<t>_packet).
HandleVlmMessage(sessions, fs, m, wfail, ofail) ==
    IF ParseVlmMessage(m) # "ok"
    THEN Result(sessions, fs, <<Error(ParseVlmMessage(m), {})>>, FALSE, FALSE)
    ELSE IF IsEndSignal(m) THEN HandleEndSignal(sessions, fs)
    ELSE
    Only({
    IF verdict # "ok"
    THEN Result(sessions, fs, <<Error(verdict, {})>>, FALSE, FALSE)
    ELSE
    LET seq == m.fields["seq"].n
        total == m.fields["total"].n
        data_type == m.fields["type"].d.body[1]
        binary_data == m.fields["data"].d
        init == GetOrInitVlmSession(sessions)
    IN
    Only({
    IF switched.err # "ok"
    THEN Result(init.sessions, fs, init.out \o <<Error("mixed", {})>>,
                FALSE, FALSE)
    ELSE
    Only({
    LET session == [switched.session EXCEPT ![data_type] = done.tr]
        sessions1 == [init.sessions EXCEPT ![SID] = session]
    IN
    IF ~done.success
    THEN Result(sessions1, done.files, init.out \o done.out, FALSE, done.fault)
    ELSE Result(sessions1, done.files,
                init.out \o <<VlmAckFor(session, seq, data_type)>>,
                FALSE, FALSE)
    : done \in {ProcessTypedPacket(switched.session[data_type], fs, seq, total,
                                   binary_data, wfail, ofail)} })
    : switched \in {SwitchDataType(init.sessions[SID], data_type)} })
    : verdict \in {ValidateVlmPacket(m, VLM_MAX_ENCODED)} })

----------------------------------------------------------------------------
(* Byte strings of the audio path *)

\* A byte of raw audio is named by its position in the stream the producer
\* generates, and a byte string is the sequence of the maximal runs <<lo, hi>>
\* of consecutive positions it holds; b"" is <<>>.
NoBytes == <<>>

\* the bytes at positions lo..hi
Run(lo, hi) == IF hi < lo THEN NoBytes ELSE <<<<lo, hi>>>>

\* len(b)
RECURSIVE BLen(_)
BLen(b) == IF b = <<>> THEN 0 ELSE (Head(b)[2] - Head(b)[1] + 1) + BLen(Tail(b))

\* a + b
BCat(a, b) ==
    IF a = <<>> THEN b
    ELSE IF b = <<>> THEN a
    ELSE IF a[Len(a)][2] + 1 = b[1][1]
         THEN SubSeq(a, 1, Len(a) - 1) \o <<<<a[Len(a)][1], b[1][2]>>>> \o Tail(b)
         ELSE a \o b

\* b[:n]
RECURSIVE BTake(_, _)
BTake(b, n) ==
    IF n <= 0 \/ b = <<>> THEN <<>>
    ELSE LET lo == Head(b)[1]
             hi == Head(b)[2]
         IN  IF hi - lo + 1 <= n
             THEN <<Head(b)>> \o BTake(Tail(b), n - (hi - lo + 1))
             ELSE <<<<lo, lo + n - 1>>>>

\* b[n:]
RECURSIVE BDrop(_, _)
BDrop(b, n) ==
    IF n <= 0 \/ b = <<>> THEN b
    ELSE LET lo == Head(b)[1]
             hi == Head(b)[2]
         IN  IF hi - lo + 1 <= n
             THEN BDrop(Tail(b), n - (hi - lo + 1))
             ELSE <<<<lo + n, hi>>>> \o Tail(b)

----------------------------------------------------------------------------
(* audio_converter.py: PCMToMP3StreamConverter *)

\* MP3 data: the raw bytes it encodes; the encoding of real audio is never
\* empty, and b"" encodes nothing
Mp3(pcm_data) == [pcm |-> pcm_data]

NoMp3 == Mp3(NoBytes)

\* truth value of a bytes object
Truthy(mp3_data) == mp3_data.pcm # NoBytes

\* int((sample_rate * buffer_duration_ms / 1000) * channels * sample_width)
BufferSize(sample_rate, channels, sample_width, buffer_duration_ms) ==
    (sample_rate * buffer_duration_ms * channels * sample_width) \div 1000

\* __init__
NewConverter(sample_rate, channels, sample_width, buffer_duration_ms) ==
    [sample_rate |-> sample_rate,
     channels |-> channels,
     sample_width |-> sample_width,
     buffer_size |-> BufferSize(sample_rate, channels, sample_width,
                                buffer_duration_ms),
     pcm_buffer |-> NoBytes]

\* _convert_pcm_to_mp3: b"" for no data; otherwise the encoder's output, or
\* the exception the encoder raised (fail), which is re-raised
ConvertPcmToMp3(pcm_data, fail) ==
    IF BLen(pcm_data) = 0 THEN [mp3 |-> NoMp3, raised |-> FALSE]
    ELSE IF fail THEN [mp3 |-> NoMp3, raised |-> TRUE]
    ELSE [mp3 |-> Mp3(pcm_data), raised |-> FALSE]

\* variant: the block is cut off the front and the leftover is discarded
AddPcmData_DropsLeftover(self, pcm_data, fail) ==
    LET appended == BCat(self.pcm_buffer, pcm_data)
    IN  IF BLen(appended) >= self.buffer_size
        THEN LET converted == ConvertPcmToMp3(BTake(appended, self.buffer_size), fail)
             IN  [self |-> [self EXCEPT !.pcm_buffer = NoBytes],
                  ret |-> converted.mp3, raised |-> converted.raised]
        ELSE [self |-> [self EXCEPT !.pcm_buffer = appended],
              ret |-> NoMp3, raised |-> FALSE]

\* variant: the whole accumulator is converted once the threshold is reached
AddPcmData_WholeBuffer(self, pcm_data, fail) ==
    LET appended == BCat(self.pcm_buffer, pcm_data)
    IN  IF BLen(appended) >= self.buffer_size
        THEN LET converted == ConvertPcmToMp3(appended, fail)
             IN  [self |-> [self EXCEPT !.pcm_buffer = NoBytes],
                  ret |-> converted.mp3, raised |-> converted.raised]
        ELSE [self |-> [self EXCEPT !.pcm_buffer = appended],
              ret |-> NoMp3, raised |-> FALSE]

\* add_pcm_data: the buffer is cut before the conversion, so a conversion
\* that raises has already taken its block out of the buffer
AddPcmData(self, pcm_data, fail) ==
    LET appended == BCat(self.pcm_buffer, pcm_data)
    IN  IF BLen(appended) >= self.buffer_size
        THEN LET pcm_to_convert == BTake(appended, self.buffer_size)
                 converted == ConvertPcmToMp3(pcm_to_convert, fail)
             IN  [self |-> [self EXCEPT !.pcm_buffer =
                                            BDrop(appended, self.buffer_size)],
                  ret |-> converted.mp3, raised |-> converted.raised]
        ELSE [self |-> [self EXCEPT !.pcm_buffer = appended],
              ret |-> NoMp3, raised |-> FALSE]

\* variant: a tail shorter than the threshold is not worth a chunk
FlushRemaining_FullBlocksOnly(self, fail) ==
    IF BLen(self.pcm_buffer) >= self.buffer_size
    THEN LET converted == ConvertPcmToMp3(self.pcm_buffer, fail)
         IN  IF converted.raised
             THEN [self |-> self, ret |-> NoMp3, raised |-> TRUE]
             ELSE [self |-> [self EXCEPT !.pcm_buffer = NoBytes],
                   ret |-> converted.mp3, raised |-> FALSE]
    ELSE [self |-> [self EXCEPT !.pcm_buffer = NoBytes],
          ret |-> NoMp3, raised |-> FALSE]

\* flush_remaining: the buffer is emptied after the conversion returned
FlushRemaining(self, fail) ==
    IF BLen(self.pcm_buffer) > 0
    THEN LET converted == ConvertPcmToMp3(self.pcm_buffer, fail)
         IN  IF converted.raised
             THEN [self |-> self, ret |-> NoMp3, raised |-> TRUE]
             ELSE [self |-> [self EXCEPT !.pcm_buffer = NoBytes],
                   ret |-> converted.mp3, raised |-> FALSE]
    ELSE [self |-> self, ret |-> NoMp3, raised |-> FALSE]

\* one call of the converter, as recorded in chunks
Returned(via, mp3_data) == [via |-> via, pcm |-> mp3_data.pcm]

\* no converter exists
ConvIdle ==
    /\ mp3_converter = NewConverter(0, 0, 0, 0)
    /\ conv_pc = "idle"
    /\ frame_lens = <<>>
    /\ pushed = NoBytes
    /\ chunks = <<>>
    /\ conv_raised = FALSE

----------------------------------------------------------------------------
(* Text of the synthesis turn: a string is the sequence of its characters *)

\* sentence_endings
\* a character outside ASCII is named by its code point
SentenceEndings == {"u3002", "uFF01", "uFF1F", ".", "!", "?", "\n"}

\* the characters str.strip() removes
Whitespace == {" ", "\n", "\t", "\r"}

\* any(ending in chunk for ending in sentence_endings)
HasEnding(chunk) == \E i \in DOMAIN chunk : chunk[i] \in SentenceEndings

RECURSIVE LStrip(_)
LStrip(s) == IF s # <<>> /\ Head(s) \in Whitespace THEN LStrip(Tail(s)) ELSE s

RECURSIVE RStrip(_)
RStrip(s) ==
    IF s # <<>> /\ s[Len(s)] \in Whitespace
    THEN RStrip(SubSeq(s, 1, Len(s) - 1)) ELSE s

\* s.strip()
Strip(s) == RStrip(LStrip(s))

\* n times the character c
Rep(c, n) == [i \in 1..n |-> c]

\* what the engine is sent
SessionUpdate == [type |-> "session.update", text |-> <<>>]
InputTextAppend(text) == [type |-> "input_text_buffer.append", text |-> text]
SessionFinish == [type |-> "session.finish", text |-> <<>>]

\* variant: only the length limit triggers the synthesis
ShouldSynthesize_LengthOnly(chunk, buffer) ==
    Len(Strip(buffer)) >= SEGMENT_CHARS

\* variant: the raw length of the buffer is compared
ShouldSynthesize_RawLength(chunk, buffer) ==
    \/ HasEnding(chunk)
    \/ Len(buffer) >= SEGMENT_CHARS

\* should_synthesize: the delta just appended holds a sentence ending, or the
\* stripped buffer has reached 50 characters
ShouldSynthesize(chunk, buffer) ==
    \/ HasEnding(chunk)
    \/ Len(Strip(buffer)) >= SEGMENT_CHARS

\* variant: the segment is sent and the buffer is kept
AfterSynthesis_KeepsBuffer(chunk, buffer) ==
    IF ShouldSynthesize(chunk, buffer) /\ Strip(buffer) # <<>>
    THEN [send |-> TRUE, text |-> Strip(buffer), buffer |-> buffer]
    ELSE [send |-> FALSE, text |-> <<>>, buffer |-> buffer]

\* if should_synthesize and text_buffer.strip(): send the stripped buffer and
\* empty it afterwards; otherwise the buffer stays as it is
AfterSynthesis(chunk, buffer) ==
    IF ShouldSynthesize(chunk, buffer) /\ Strip(buffer) # <<>>
    THEN [send |-> TRUE, text |-> Strip(buffer), buffer |-> <<>>]
    ELSE [send |-> FALSE, text |-> <<>>, buffer |-> buffer]

\* variant: what is left when the generator ends is sent only if it would
\* have been sent while streaming
Remainder_OnlyIfDue(buffer) ==
    IF Strip(buffer) # <<>> /\ (HasEnding(buffer) \/ Len(Strip(buffer)) >= SEGMENT_CHARS)
    THEN [send |-> TRUE, text |-> Strip(buffer)]
    ELSE [send |-> FALSE, text |-> <<>>]

\* if text_buffer.strip(): what is left when the generator ends
Remainder(buffer) ==
    IF Strip(buffer) # <<>>
    THEN [send |-> TRUE, text |-> Strip(buffer)]
    ELSE [send |-> FALSE, text |-> <<>>]

\* variant: the newest event overtakes the ones sent before
SendEvent_Overtaking(sofar, event) == <<event>> \o sofar

\* TTSRealtimeClient.send_event: ws.send, in call order
SendEvent(sofar, event) == Append(sofar, event)

----------------------------------------------------------------------------
(* The frame queue and the transcoder loop of a synthesis turn *)

\* asyncio.Queue(): no maxsize is given, so maxsize is 0
NewQueue == [maxsize |-> 0, items |-> <<>>]

\* Queue.full(): a queue whose maxsize is not positive is never full
Full(q) == q.maxsize > 0 /\ Len(q.items) >= q.maxsize

\* variant: the newest frame is put at the head
PutNowait_AtHead(q, item) ==
    IF Full(q) THEN [queue |-> q, full |-> TRUE]
    ELSE [queue |-> [q EXCEPT !.items = <<item>> \o @], full |-> FALSE]

\* Queue.put_nowait: QueueFull when the queue is full
PutNowait(q, item) ==
    IF Full(q) THEN [queue |-> q, full |-> TRUE]
    ELSE [queue |-> [q EXCEPT !.items = Append(@, item)], full |-> FALSE]

\* audio_callback: the frame is queued, or dropped when QueueFull is raised
AudioCallback(q, audio_bytes) == PutNowait(q, audio_bytes)

\* audio_stream events
AudioData(mp3_data) == [event |-> "data", pcm |-> mp3_data.pcm]
AudioFinished == [event |-> "finished", pcm |-> NoBytes]

\* variant: the loop ends without converting what the buffer still holds
AfterLoop_NoFlush(converter, events, fail) ==
    [converter |-> converter, emitted |-> events, raised |-> FALSE,
     returned |-> <<>>, task |-> "done"]

\* process_pcm_to_mp3 after its loop: flush_remaining, and the last chunk is
\* emitted before the task yields once more; flush_remaining may raise
AfterLoop(converter, events, fail) ==
    LET r == FlushRemaining(converter, fail)
    IN  IF r.raised
        THEN [converter |-> r.self, emitted |-> events, raised |-> TRUE,
              returned |-> <<>>, task |-> "failed"]
        ELSE IF Truthy(r.ret)
        THEN [converter |-> r.self, emitted |-> Append(events, AudioData(r.ret)),
              raised |-> FALSE, returned |-> <<Returned("flush", r.ret)>>,
              task |-> "flush_yield"]
        ELSE [converter |-> r.self, emitted |-> events, raised |-> FALSE,
              returned |-> <<Returned("flush", r.ret)>>, task |-> "done"]

\* variant: the loop stops as soon as the queue is seen empty once
DrainContinues_NoDebounce(empty_count, cycles) ==
    empty_count < 1 /\ cycles < max_wait_cycles

\* while queue_empty_count < 5 and wait_cycles < max_wait_cycles
DrainContinues(empty_count, cycles) ==
    empty_count < EMPTY_POLLS /\ cycles < max_wait_cycles

\* one poll of the drain loop on a queue of current_size frames
DrainPollStep(empty_count, cycles, current_size) ==
    [queue_empty_count |-> IF current_size = 0 THEN empty_count + 1 ELSE 0,
     wait_cycles |-> cycles + 1]

\* no turn is running
TurnIdle ==
    /\ pc = "idle"
    /\ response = <<>>
    /\ frames_left = 0
    /\ consumed = 0
    /\ assistant_response = <<>>
    /\ text_buffer = <<>>
    /\ held = 0
    /\ segments = <<>>
    /\ engine_in = <<>>
    /\ ws = "none"
    /\ consumer_task = "none"
    /\ mp3_task = "none"
    /\ pcm_queue = NewQueue
    /\ processing_active = FALSE
    /\ arrived = NoBytes
    /\ dropped = 0
    /\ emitted = <<>>
    /\ queue_empty_count = 0
    /\ wait_cycles = 0
    /\ trailing_empty = 0
    /\ result = "none"
    /\ future = "none"
    /\ chat_result = "none"
    /\ engine_errors = 0

----------------------------------------------------------------------------
(* The state machine *)

NoneDelivered == [audio |-> {}, image |-> {}]

WsInit ==
    /\ conn = "new"
    /\ endpoint = "none"
    /\ audio_sessions = EmptyMap
    /\ vlm_sessions = EmptyMap
    /\ files = <<>>
    /\ task = "none"
    /\ out = <<>>
    /\ op = "init"
    /\ accepted = {}
    /\ delivered = NoneDelivered
    /\ clean = TRUE
    /\ started = 0

Init == WsInit /\ ConvIdle /\ TurnIdle

\* handle_audio_connect
Connect ==
    /\ conn = "new"
    /\ conn' = "open"
    /\ endpoint' = "audio"
    /\ audio_sessions' = Put(audio_sessions, SID, NewAudioSession)
    /\ out' = <<Connected>>
    /\ op' = "connect"
    /\ started' = 0
    /\ UNCHANGED <<vlm_sessions, files, task, accepted, delivered, clean>>
    /\ UNCHANGED turnVars

\* what handle_audio_disconnect does to the registry and the files
HandleAudioDisconnect(sessions, fs) ==
    IF SID \in DOMAIN sessions
    THEN [sessions |-> Remove(sessions, SID),
          files |-> IF sessions[SID].file_handle # 0
                    THEN CloseFile(fs, sessions[SID].file_handle) ELSE fs]
    ELSE [sessions |-> sessions, files |-> fs]

Disconnect ==
    /\ conn = "open"
    /\ endpoint = "audio"
    /\ conn' = "closed"
    /\ \E d \in {HandleAudioDisconnect(audio_sessions, files)} :
         audio_sessions' = d.sessions /\ files' = d.files
    /\ out' = <<>>
    /\ op' = "disconnect"
    /\ UNCHANGED <<endpoint, vlm_sessions, task, accepted, delivered, clean, started>>
    /\ UNCHANGED turnVars

\* the packet of step (before -> after) was taken: buffered or written
Took(before, after, seq) ==
    \/ seq \in (DOMAIN after.packets) \ (DOMAIN before.packets)
    \/ after.expected_seq > before.expected_seq

\* handle_audio_message on message m; write number wfail raises, open()
\* raises when ofail
Message(m, wfail, ofail) ==
    \E r \in {HandleAudioMessage(audio_sessions, files, m, wfail, ofail)} :
    LET valid == ValidatePacket(m, AUDIO_MAX_ENCODED) = "ok"
        fresh == SID \notin DOMAIN audio_sessions
        before == GetOrInitSession(audio_sessions)[SID]
        seq == m.fields["seq"].n
        sofar == IF fresh THEN {} ELSE delivered.audio
        isClean == /\ valid
                   /\ fresh \/ clean
                   /\ ~r.fault
                   /\ seq \notin sofar
                   /\ before.total_packets \in {0, m.fields["total"].n}
    IN  /\ conn = "open"
        /\ endpoint = "audio"
        /\ Len(r.files) <= MaxFiles
        /\ r.fault = (wfail # 0 \/ ofail)
        /\ audio_sessions' = r.sessions
        /\ files' = r.files
        /\ out' = r.out
        /\ task' = IF r.start THEN "running" ELSE task
        /\ started' = (IF fresh THEN 0 ELSE started) + (IF r.start THEN 1 ELSE 0)
        /\ op' = "message"
        /\ accepted' = IF valid /\ Took(before, r.sessions[SID], seq)
                       THEN accepted \cup {seq} ELSE accepted
        /\ clean' = isClean
        /\ delivered' = IF isClean
                        THEN [NoneDelivered EXCEPT !.audio = sofar \cup {seq}]
                        ELSE NoneDelivered
        /\ UNCHANGED <<conn, endpoint, vlm_sessions>>
        /\ UNCHANGED turnVars

Receive == \E m \in Messages : Message(m, 0, FALSE)

\* the same with open() or one write() raising
ReceiveFault ==
    \E m \in GoodPackets : \E f \in {<<1, FALSE>>, <<2, FALSE>>, <<0, TRUE>>} :
        Message(m, f[1], f[2])

\* process_audio_task: process_complete_audio returns True or False
BgProcess ==
    /\ endpoint = "audio"
    /\ task = "running"
    /\ \E success \in BOOLEAN : task' = IF success THEN "check" ELSE "done"
    /\ UNCHANGED <<conn, endpoint, audio_sessions, vlm_sessions, files, out, op,
                   accepted, delivered, clean, started>>
    /\ UNCHANGED turnVars

\* if session_id in audio_sessions
BgCheck ==
    /\ endpoint = "audio"
    /\ task = "check"
    /\ task' = IF SID \in DOMAIN audio_sessions THEN "del" ELSE "done"
    /\ UNCHANGED <<conn, endpoint, audio_sessions, vlm_sessions, files, out, op,
                   accepted, delivered, clean, started>>
    /\ UNCHANGED turnVars

\* del audio_sessions[session_id]; a KeyError lands in the except block,
\* which finds no session to delete
BgDelete ==
    /\ endpoint = "audio"
    /\ task = "del"
    /\ task' = "done"
    /\ audio_sessions' = Remove(audio_sessions, SID)
    /\ UNCHANGED <<conn, endpoint, vlm_sessions, files, out, op, accepted,
                   delivered, clean, started>>
    /\ UNCHANGED turnVars

\* handle_vlm_connect
VlmConnect ==
    /\ conn = "new"
    /\ conn' = "open"
    /\ endpoint' = "vlm"
    /\ vlm_sessions' = Put(vlm_sessions, SID, NewVlmSession)
    /\ out' = <<Connected>>
    /\ op' = "connect"
    /\ started' = 0
    /\ UNCHANGED <<audio_sessions, files, task, accepted, delivered, clean>>
    /\ UNCHANGED turnVars

\* mutant: only the audio file is closed
HandleVlmDisconnect_AudioOnly(sessions, fs) ==
    IF SID \in DOMAIN sessions
    THEN [sessions |-> Remove(sessions, SID),
          files |-> IF sessions[SID].audio.file_handle # 0
                    THEN CloseFile(fs, sessions[SID].audio.file_handle) ELSE fs]
    ELSE [sessions |-> sessions, files |-> fs]

\* what handle_vlm_disconnect does to the registry and the files
HandleVlmDisconnect(sessions, fs) ==
    IF SID \in DOMAIN sessions
    THEN LET session == sessions[SID]
             fs1 == IF session.audio.file_handle # 0
                    THEN CloseFile(fs, session.audio.file_handle) ELSE fs
             fs2 == IF session.image.file_handle # 0
                    THEN CloseFile(fs1, session.image.file_handle) ELSE fs1
         IN  [sessions |-> Remove(sessions, SID), files |-> fs2]
    ELSE [sessions |-> sessions, files |-> fs]

VlmDisconnect ==
    /\ conn = "open"
    /\ endpoint = "vlm"
    /\ conn' = "closed"
    /\ \E d \in {HandleVlmDisconnect(vlm_sessions, files)} :
         vlm_sessions' = d.sessions /\ files' = d.files
    /\ out' = <<>>
    /\ op' = "disconnect"
    /\ UNCHANGED <<endpoint, audio_sessions, task, accepted, delivered, clean, started>>
    /\ UNCHANGED turnVars

\* the packet of step (before -> after) was taken: buffered or written
VlmTook(before, after, seq) ==
    \/ seq \in (DOMAIN after.packets) \ (DOMAIN before.packets)
    \/ after.expected_seq > before.expected_seq

\* the transfer of a type is under way: some but not all packets delivered
InProgress(sofar, session, data_type) ==
    /\ sofar[data_type] # {}
    /\ sofar[data_type] # 1..session[data_type].total

\* handle_vlm_message on a data packet m; write number wfail raises, open()
\* raises when ofail
VlmMessage(m, wfail, ofail) ==
    \E r \in {HandleVlmMessage(vlm_sessions, files, m, wfail, ofail)} :
    LET valid == ValidateVlmPacket(m, VLM_MAX_ENCODED) = "ok"
        fresh == SID \notin DOMAIN vlm_sessions
        before == GetOrInitVlmSession(vlm_sessions).sessions[SID]
        seq == m.fields["seq"].n
        data_type == m.fields["type"].d.body[1]
        sofar == IF fresh THEN NoneDelivered ELSE delivered
        isClean == /\ valid
                   /\ fresh \/ clean
                   /\ ~r.fault
                   /\ seq \notin sofar[data_type]
                   /\ before[data_type].total \in {0, m.fields["total"].n}
                   /\ ~InProgress(sofar, before, Other(data_type))
    IN  /\ conn = "open"
        /\ endpoint = "vlm"
        /\ ~IsEndSignal(m)
        /\ Len(r.files) <= MaxFiles
        /\ r.fault = (wfail # 0 \/ ofail)
        /\ vlm_sessions' = r.sessions
        /\ files' = r.files
        /\ out' = r.out
        /\ op' = "message"
        /\ clean' = isClean
        /\ delivered' = IF isClean
                        THEN [sofar EXCEPT ![data_type] = @ \cup {seq}]
                        ELSE NoneDelivered
        /\ started' = IF fresh THEN 0 ELSE started
        /\ UNCHANGED <<conn, endpoint, audio_sessions, task, accepted>>
        /\ UNCHANGED turnVars

VlmReceive == \E m \in VlmMessages : VlmMessage(m, 0, FALSE)

\* the same with open() or one write() raising
VlmReceiveFault ==
    \E m \in VlmGoodPackets : \E f \in {<<1, FALSE>>, <<2, FALSE>>, <<0, TRUE>>} :
        VlmMessage(m, f[1], f[2])

\* process_complete_vlm raises, and returns False, unless the session has
\* an audio file and an image file
HasBothFiles(session) ==
    /\ session.audio.filepath \in 1..Len(files)
    /\ session.image.filepath \in 1..Len(files)

\* handle_vlm_message on the end signal; one post-processing task at a time
VlmEnd ==
    \E r \in {HandleVlmMessage(vlm_sessions, files, EndSignal, 0, FALSE)} :
    /\ conn = "open"
    /\ endpoint = "vlm"
    /\ r.start => task \in {"none", "done"} /\ started < MaxStarts
    /\ started' = IF r.start THEN started + 1 ELSE started
    /\ vlm_sessions' = r.sessions
    /\ out' = r.out
    /\ task' = IF ~r.start THEN task
               ELSE IF HasBothFiles(r.sessions[SID]) THEN "running"
               ELSE "failing"
    /\ op' = "end"
    /\ UNCHANGED <<conn, endpoint, audio_sessions, files, accepted, delivered,
                   clean>>
    /\ UNCHANGED turnVars

\* process_vlm_task: process_complete_vlm returns False when a file is
\* missing, and True or False otherwise
VlmBgProcess ==
    /\ endpoint = "vlm"
    /\ task \in {"running", "failing"}
    /\ \E success \in BOOLEAN :
         /\ task = "failing" => ~success
         /\ task' = IF success THEN "check" ELSE "done"
    /\ UNCHANGED <<conn, endpoint, audio_sessions, vlm_sessions, files, out, op,
                   accepted, delivered, clean, started>>
    /\ UNCHANGED turnVars

\* if session_id in vlm_sessions
VlmBgCheck ==
    /\ endpoint = "vlm"
    /\ task = "check"
    /\ task' = IF SID \in DOMAIN vlm_sessions THEN "del" ELSE "done"
    /\ UNCHANGED <<conn, endpoint, audio_sessions, vlm_sessions, files, out, op,
                   accepted, delivered, clean, started>>
    /\ UNCHANGED turnVars

\* del vlm_sessions[session_id]; a KeyError lands in the except block, where
\* cleanup_session_files finds no session
VlmBgDelete ==
    /\ endpoint = "vlm"
    /\ task = "del"
    /\ task' = "done"
    /\ vlm_sessions' = Remove(vlm_sessions, SID)
    /\ UNCHANGED <<conn, endpoint, audio_sessions, files, out, op, accepted,
                   delivered, clean, started>>
    /\ UNCHANGED turnVars

Next ==
    \/ Connect
    \/ Disconnect
    \/ Receive
    \/ ReceiveFault
    \/ BgProcess
    \/ BgCheck
    \/ BgDelete
    \/ VlmConnect
    \/ VlmDisconnect
    \/ VlmReceive
    \/ VlmReceiveFault
    \/ VlmEnd
    \/ VlmBgProcess
    \/ VlmBgCheck
    \/ VlmBgDelete

Spec == Init /\ [][Next]_vars

\* the background task is scheduled by the server and runs to its end; the
\* client is free to send nothing more and to stay connected
LiveSpec ==
    /\ Spec
    /\ WF_vars(BgProcess) /\ WF_vars(BgCheck) /\ WF_vars(BgDelete)
    /\ WF_vars(VlmBgProcess) /\ WF_vars(VlmBgCheck) /\ WF_vars(VlmBgDelete)

----------------------------------------------------------------------------
(* The frame transcoder on its own: a fresh converter is given frames by *)
(* add_pcm_data and then flushed                                         *)

\* the parameters a converter is created with: the defaults, also used by
\* the synthesis pipeline (24000 bytes), and a shorter buffer (3200 bytes)
ConverterParams ==
    { [sample_rate |-> 24000, channels |-> 1, sample_width |-> 2,
       buffer_duration_ms |-> 500],
      [sample_rate |-> 16000, channels |-> 1, sample_width |-> 2,
       buffer_duration_ms |-> 100] }

\* lengths of the frames given to add_pcm_data
FrameSizes == {0, 1, 3199, 3200, 9600, 15360, 24000, 24001, 48001}

\* the next len bytes of the stream
NextFrame(sofar, len) == Run(BLen(sofar) + 1, BLen(sofar) + len)

ConvInit ==
    /\ WsInit
    /\ TurnIdle
    /\ \E p \in ConverterParams :
         mp3_converter = NewConverter(p.sample_rate, p.channels, p.sample_width,
                                      p.buffer_duration_ms)
    /\ conv_pc = "pushing"
    /\ frame_lens = <<>>
    /\ pushed = NoBytes
    /\ chunks = <<>>
    /\ conv_raised = FALSE

\* mp3_converter.add_pcm_data(frame)
Push(len, fail) ==
    \E r \in {AddPcmData(mp3_converter, NextFrame(pushed, len), fail)} :
        /\ conv_pc = "pushing"
        /\ Len(frame_lens) < MaxPushes
        /\ r.raised = fail
        /\ mp3_converter' = r.self
        /\ frame_lens' = Append(frame_lens, len)
        /\ pushed' = BCat(pushed, NextFrame(pushed, len))
        /\ chunks' = IF r.raised THEN chunks
                     ELSE Append(chunks, Returned("push", r.ret))
        /\ conv_raised' = (conv_raised \/ r.raised)
        /\ UNCHANGED <<conv_pc, wsVars, ttsVars>>

ConvPush == \E len \in FrameSizes : Push(len, FALSE)

ConvPushRaises == \E len \in FrameSizes : Push(len, TRUE)

\* mp3_converter.flush_remaining()
Flush(fail) ==
    \E r \in {FlushRemaining(mp3_converter, fail)} :
        /\ conv_pc = "pushing"
        /\ r.raised = fail
        /\ mp3_converter' = r.self
        /\ conv_pc' = "flushed"
        /\ chunks' = IF r.raised THEN chunks
                     ELSE Append(chunks, Returned("flush", r.ret))
        /\ conv_raised' = (conv_raised \/ r.raised)
        /\ UNCHANGED <<frame_lens, pushed, wsVars, ttsVars>>

ConvFlush == Flush(FALSE)

ConvFlushRaises == Flush(TRUE)

ConvNext ==
    \/ ConvPush
    \/ ConvPushRaises
    \/ ConvFlush
    \/ ConvFlushRaises

ConvSpec == ConvInit /\ [][ConvNext]_vars

----------------------------------------------------------------------------
(* One synthesis turn: streaming_chat_with_tts (services/audio_processor.py) *)
(* and, line for line the same, streaming_vlm_with_tts                      *)
(* (services/vlm_processor.py).  Three tasks share one event loop: the main  *)
(* driver, the transcoder loop process_pcm_to_mp3 and the event consumer     *)
(* TTSRealtimeClient.handle_messages.  A task runs from one await to the     *)
(* next without interruption, so each action is one such stretch.            *)

\* the event loop is running the tasks of the turn
LoopRunning == pc \notin {"idle", "start", "failed", "done"}

\* the deltas generate_chat_response_stream yields are never empty
Deltas ==
    { <<"a">>, <<".">>, <<" ">>, <<"\n">>, <<"u597D", "u3002">>,
      <<"H", "e", "l", "l", "o", " ", "w", "o", "r", "l", "d", ".", " ">>,
      Rep("a", 25), Rep("a", 49), Rep("a", 60) }

RECURSIVE Scripts(_, _)
Scripts(D, n) ==
    IF n = 0 THEN {<<>>}
    ELSE Scripts(D, n - 1) \cup
         {Append(s, d) : s \in {t \in Scripts(D, n - 1) : Len(t) = n - 1}, d \in D}

\* the responses of the turns in which audio is followed
TurnScripts == {<<>>, <<Rep("a", 25)>>, <<<<"a">>, <<".">>>>}

\* lengths of the frames the engine delivers: 0.32 s and 0.5 s of audio
EngineFrameSizes == {15360, 24000}

TurnInit(scripts, frames) ==
    /\ WsInit
    /\ ConvIdle
    /\ pc = "start"
    /\ response \in scripts
    /\ frames_left = frames
    /\ consumed = 0
    /\ assistant_response = <<>>
    /\ text_buffer = <<>>
    /\ held = 0
    /\ segments = <<>>
    /\ engine_in = <<>>
    /\ ws = "none"
    /\ consumer_task = "none"
    /\ mp3_task = "none"
    /\ pcm_queue = NewQueue
    /\ processing_active = TRUE
    /\ arrived = NoBytes
    /\ dropped = 0
    /\ emitted = <<>>
    /\ queue_empty_count = 0
    /\ wait_cycles = 0
    /\ trailing_empty = 0
    /\ result = "none"
    /\ future = "pending"
    /\ chat_result = "none"
    /\ engine_errors = 0

\* the caller of the turn and the engine's error events
outerVars == <<future, chat_result, engine_errors>>

textVars == <<response, consumed, assistant_response, text_buffer, held, segments>>
audioVars == <<frames_left, pcm_queue, arrived, dropped, emitted>>
drainVars == <<queue_empty_count, wait_cycles, trailing_empty>>

\* an exception leaves streaming_chat_with_tts: run_until_complete raises,
\* the turn returns success False and the loop is closed
Fails ==
    /\ pc' = "failed"
    /\ result' = "error"

(* the main driver *)

\* lines 174-265: the queue, the flag and the transcoder task are created,
\* the engine connection is opened (connect sends session.update) and the
\* consumer task is created; the transcoder task runs up to its first wait
\* while connect is awaited
TurnConnect ==
    /\ pc = "start"
    /\ \E fail \in BOOLEAN :
         IF fail
         THEN /\ Fails
              /\ UNCHANGED <<ws, engine_in, consumer_task>>
         ELSE /\ pc' = "stream"
              /\ ws' = "open"
              /\ engine_in' = SendEvent(engine_in, SessionUpdate)
              /\ consumer_task' = "running"
              /\ UNCHANGED result
    /\ mp3_task' = "wait"
    /\ mp3_converter' = NewConverter(TTS_SAMPLE_RATE, 1, 2, 500)
    /\ UNCHANGED <<wsVars, outerVars, conv_pc, frame_lens, pushed, chunks, conv_raised,
                   textVars, audioVars, drainVars, processing_active>>

\* lines 268-279: the next delta is appended to the response and to the buffer
NextDelta ==
    /\ pc = "stream"
    /\ consumed < Len(response)
    /\ consumed' = consumed + 1
    /\ assistant_response' = assistant_response \o response[consumed + 1]
    /\ text_buffer' = text_buffer \o response[consumed + 1]
    /\ held' = held + 1
    /\ pc' = "synth"
    /\ UNCHANGED <<wsVars, outerVars, convVars, response, segments, engine_in, ws,
                   consumer_task, mp3_task, audioVars, drainVars,
                   processing_active, result>>

\* lines 281-305: the buffer is sent if it is due; append_text may raise
Synthesize ==
    /\ pc = "synth"
    /\ \E r \in {AfterSynthesis(response[consumed], text_buffer)} :
       \E fail \in {FALSE, r.send} :
         IF fail
         THEN /\ Fails
              /\ UNCHANGED <<text_buffer, held, segments, engine_in>>
         ELSE /\ pc' = "stream"
              /\ text_buffer' = r.buffer
              /\ held' = IF r.send THEN 0 ELSE held
              /\ segments' = IF r.send
                             THEN Append(segments, [first |-> consumed - held + 1,
                                                    last |-> consumed,
                                                    text |-> r.text])
                             ELSE segments
              /\ engine_in' = IF r.send
                              THEN SendEvent(engine_in, InputTextAppend(r.text))
                              ELSE engine_in
              /\ UNCHANGED result
    /\ UNCHANGED <<wsVars, outerVars, convVars, response, consumed, assistant_response, ws,
                   consumer_task, mp3_task, audioVars, drainVars,
                   processing_active>>

\* lines 307-314: the generator is exhausted and what is left is sent
StreamEnd ==
    /\ pc = "stream"
    /\ consumed = Len(response)
    /\ \E r \in {Remainder(text_buffer)} :
       \E fail \in {FALSE, r.send} :
         IF fail
         THEN /\ Fails
              /\ UNCHANGED <<segments, engine_in>>
         ELSE /\ pc' = "finish"
              /\ segments' = IF r.send
                             THEN Append(segments, [first |-> consumed - held + 1,
                                                    last |-> consumed,
                                                    text |-> r.text])
                             ELSE segments
              /\ engine_in' = IF r.send
                              THEN SendEvent(engine_in, InputTextAppend(r.text))
                              ELSE engine_in
              /\ UNCHANGED result
    /\ UNCHANGED <<wsVars, outerVars, convVars, response, consumed, assistant_response,
                   text_buffer, held, ws, consumer_task, mp3_task, audioVars,
                   drainVars, processing_active>>

\* line 317: finish_session
Finish ==
    /\ pc = "finish"
    /\ \E fail \in BOOLEAN :
         IF fail
         THEN Fails /\ UNCHANGED engine_in
         ELSE /\ pc' = "wait_consumer"
              /\ engine_in' = SendEvent(engine_in, SessionFinish)
              /\ UNCHANGED result
    /\ UNCHANGED <<wsVars, outerVars, convVars, textVars, ws, consumer_task, mp3_task,
                   audioVars, drainVars, processing_active>>

\* the main driver up to the finish signal, the other tasks left aside
TextInit == TurnInit(Scripts(Deltas, MaxDeltas), 0)

TextNext ==
    \/ TurnConnect
    \/ NextDelta
    \/ Synthesize
    \/ StreamEnd
    \/ Finish

TextSpec == TextInit /\ [][TextNext]_vars

(* the event consumer: TTSRealtimeClient.handle_messages *)

\* response.audio.delta: the decoded frame goes to audio_callback
OnAudioDelta ==
    /\ LoopRunning
    /\ consumer_task = "running"
    /\ ws = "open"
    /\ frames_left > 0
    /\ \E len \in EngineFrameSizes :
       \E r \in {AudioCallback(pcm_queue, NextFrame(arrived, len))} :
         /\ pcm_queue' = r.queue
         /\ dropped' = IF r.full THEN dropped + 1 ELSE dropped
         /\ arrived' = BCat(arrived, NextFrame(arrived, len))
    /\ frames_left' = frames_left - 1
    /\ UNCHANGED <<wsVars, outerVars, convVars, textVars, drainVars, pc, engine_in, ws,
                   consumer_task, mp3_task, emitted, processing_active, result>>

\* session.finished, the engine's answer to session.finish: break
OnSessionFinished ==
    /\ LoopRunning
    /\ consumer_task = "running"
    /\ ws = "open"
    /\ \E i \in DOMAIN engine_in : engine_in[i] = SessionFinish
    /\ consumer_task' = "done"
    /\ UNCHANGED <<wsVars, outerVars, convVars, textVars, audioVars, drainVars, pc,
                   engine_in, ws, mp3_task, processing_active, result>>

\* the connection is lost: ConnectionClosed ends the iteration
OnConnectionClosed ==
    /\ LoopRunning
    /\ consumer_task = "running"
    /\ ws = "open"
    /\ ws' = "lost"
    /\ consumer_task' = "done"
    /\ UNCHANGED <<wsVars, outerVars, convVars, textVars, audioVars, drainVars, pc,
                   engine_in, mp3_task, processing_active, result>>

\* an error event of the engine: it is logged and the iteration continues
OnError ==
    /\ LoopRunning
    /\ consumer_task = "running"
    /\ ws = "open"
    /\ engine_errors < MaxErrors
    /\ engine_errors' = engine_errors + 1
    /\ UNCHANGED <<wsVars, convVars, textVars, audioVars, drainVars, pc,
                   engine_in, ws, consumer_task, mp3_task, processing_active,
                   result, future, chat_result>>

(* the transcoder loop: process_pcm_to_mp3 *)

\* lines 237-248: the loop is left, what the buffer holds is converted and
\* emitted
LoopEnds(converter, raised_before) ==
    \E fail \in BOOLEAN :
    \E a \in {AfterLoop(converter, emitted, fail)} :
        /\ a.raised = fail
        /\ mp3_converter' = a.converter
        /\ emitted' = a.emitted
        /\ mp3_task' = a.task
        /\ conv_raised' = (raised_before \/ a.raised)

\* lines 205-235: a frame is taken from the queue and given to the converter;
\* a chunk is emitted and the task sleeps 10 ms; with no chunk the flag is
\* tested at once; an exception of the converter breaks the loop
Mp3Consume ==
    /\ LoopRunning
    /\ mp3_task = "wait"
    /\ pcm_queue.items # <<>>
    /\ pcm_queue' = [pcm_queue EXCEPT !.items = Tail(@)]
    /\ pushed' = BCat(pushed, Head(pcm_queue.items))
    /\ \E fail \in BOOLEAN :
       \E r \in {AddPcmData(mp3_converter, Head(pcm_queue.items), fail)} :
         /\ r.raised = fail
         /\ IF r.raised
            THEN LoopEnds(r.self, TRUE)
            ELSE IF Truthy(r.ret)
            THEN /\ mp3_converter' = r.self
                 /\ emitted' = Append(emitted, AudioData(r.ret))
                 /\ mp3_task' = "check"
                 /\ UNCHANGED conv_raised
            ELSE IF processing_active
            THEN /\ mp3_converter' = r.self
                 /\ mp3_task' = "wait"
                 /\ UNCHANGED <<emitted, conv_raised>>
            ELSE LoopEnds(r.self, conv_raised)
    /\ UNCHANGED <<wsVars, outerVars, conv_pc, frame_lens, chunks, textVars, drainVars,
                   pc, engine_in, ws, consumer_task, frames_left, arrived,
                   dropped, processing_active, result>>

\* lines 227-230: nothing arrived within 0.1 s; sleep(0) and continue
Mp3Timeout ==
    /\ LoopRunning
    /\ mp3_task = "wait"
    /\ pcm_queue.items = <<>>
    /\ mp3_task' = "check"
    /\ UNCHANGED <<wsVars, outerVars, convVars, textVars, audioVars, drainVars, pc,
                   engine_in, ws, consumer_task, processing_active, result>>

\* line 202: while processing_active
Mp3Continue ==
    /\ LoopRunning
    /\ mp3_task = "check"
    /\ processing_active
    /\ mp3_task' = "wait"
    /\ UNCHANGED <<wsVars, outerVars, convVars, textVars, audioVars, drainVars, pc,
                   engine_in, ws, consumer_task, processing_active, result>>

Mp3Stop ==
    /\ LoopRunning
    /\ mp3_task = "check"
    /\ ~processing_active
    /\ LoopEnds(mp3_converter, conv_raised)
    /\ UNCHANGED <<wsVars, outerVars, conv_pc, frame_lens, pushed, chunks, textVars,
                   drainVars, pc, engine_in, ws, consumer_task, frames_left,
                   pcm_queue, arrived, dropped, processing_active, result>>

\* line 248: the task returns after its last sleep(0)
Mp3Yielded ==
    /\ LoopRunning
    /\ mp3_task = "flush_yield"
    /\ mp3_task' = "done"
    /\ UNCHANGED <<wsVars, outerVars, convVars, textVars, audioVars, drainVars, pc,
                   engine_in, ws, consumer_task, processing_active, result>>

(* the main driver after the finish signal *)

\* a driver that does not wait for the consumer task before closing
ConsumerJoined_NoWait ==
    /\ pc = "wait_consumer"
    /\ pc' = "close"
    /\ UNCHANGED <<wsVars, outerVars, convVars, textVars, audioVars, drainVars, engine_in,
                   ws, consumer_task, mp3_task, processing_active, result>>

\* line 321: the consumer task has ended
ConsumerJoined ==
    /\ pc = "wait_consumer"
    /\ consumer_task = "done"
    /\ pc' = "close"
    /\ UNCHANGED <<wsVars, outerVars, convVars, textVars, audioVars, drainVars, engine_in,
                   ws, consumer_task, mp3_task, processing_active, result>>

\* lines 324-326: 180 s have passed and the consumer task is cancelled.  The
\* caller's future.result(timeout=120) was started before this wait, so by
\* then it has timed out
ConsumerTimeout ==
    /\ pc = "wait_consumer"
    /\ consumer_task = "running"
    /\ CONSUMER_TIMEOUT >= FUTURE_TIMEOUT => future = "timeout"
    /\ consumer_task' = "cancelled"
    /\ pc' = "close"
    /\ UNCHANGED <<wsVars, outerVars, convVars, textVars, audioVars, drainVars, engine_in,
                   ws, mp3_task, processing_active, result>>

\* lines 333-341: client.close(), then the counters of the drain loop
CloseClient ==
    /\ pc = "close"
    /\ \E fail \in BOOLEAN :
         IF fail
         THEN /\ Fails
              /\ UNCHANGED <<ws, queue_empty_count, wait_cycles>>
         ELSE /\ pc' = "drain"
              /\ ws' = "closed"
              /\ queue_empty_count' = 0
              /\ wait_cycles' = 0
              /\ UNCHANGED result
    /\ UNCHANGED <<wsVars, outerVars, convVars, textVars, audioVars, trailing_empty,
                   engine_in, consumer_task, mp3_task, processing_active>>

\* lines 343-352: one poll of the queue and a sleep of 0.1 s
DrainPoll ==
    /\ pc = "drain"
    /\ DrainContinues(queue_empty_count, wait_cycles)
    /\ \E s \in {DrainPollStep(queue_empty_count, wait_cycles,
                               Len(pcm_queue.items))} :
         /\ queue_empty_count' = s.queue_empty_count
         /\ wait_cycles' = s.wait_cycles
    /\ trailing_empty' = IF pcm_queue.items = <<>> THEN trailing_empty + 1 ELSE 0
    /\ UNCHANGED <<wsVars, outerVars, convVars, textVars, audioVars, pc, engine_in, ws,
                   consumer_task, mp3_task, processing_active, result>>

\* lines 354-362: the loop is left and the flag is cleared
DrainDone ==
    /\ pc = "drain"
    /\ ~DrainContinues(queue_empty_count, wait_cycles)
    /\ processing_active' = FALSE
    /\ pc' = "wait_mp3"
    /\ UNCHANGED <<wsVars, outerVars, convVars, textVars, audioVars, drainVars, engine_in,
                   ws, consumer_task, mp3_task, result>>

\* variant: 'finished' is emitted without waiting for the transcoder task
Mp3Joined_NoWait ==
    /\ pc = "wait_mp3"
    /\ emitted' = Append(emitted, AudioFinished)
    /\ pc' = "return"
    /\ UNCHANGED <<wsVars, outerVars, convVars, textVars, drainVars, engine_in, ws,
                   consumer_task, mp3_task, frames_left, pcm_queue, arrived,
                   dropped, processing_active, result>>

\* lines 365-378: the transcoder task has ended, normally or with the
\* exception of flush_remaining, and 'finished' is emitted
Mp3Joined ==
    /\ pc = "wait_mp3"
    /\ mp3_task \in {"done", "failed"}
    /\ emitted' = Append(emitted, AudioFinished)
    /\ pc' = "return"
    /\ UNCHANGED <<wsVars, outerVars, convVars, textVars, drainVars, engine_in, ws,
                   consumer_task, mp3_task, frames_left, pcm_queue, arrived,
                   dropped, processing_active, result>>

\* lines 368-370: 10 s have passed and the task is cancelled.  With the flag
\* cleared the task leaves its wait within 0.1 s and runs to its last
\* sleep(0) without awaiting, so only there can the cancellation meet it
Mp3JoinTimeout ==
    /\ pc = "wait_mp3"
    /\ mp3_task = "flush_yield"
    /\ mp3_task' = "cancelled"
    /\ emitted' = Append(emitted, AudioFinished)
    /\ pc' = "return"
    /\ UNCHANGED <<wsVars, outerVars, convVars, textVars, drainVars, engine_in, ws,
                   consumer_task, frames_left, pcm_queue, arrived, dropped,
                   processing_active, result>>

\* lines 380-396: the turn returns success
Return ==
    /\ pc = "return"
    /\ pc' = "done"
    /\ result' = "success"
    /\ UNCHANGED <<wsVars, outerVars, convVars, textVars, audioVars, drainVars, engine_in,
                   ws, consumer_task, mp3_task, processing_active>>

(* the caller: _streaming_chat_and_tts and _process_chat_and_tts *)

\* line 413: future.result(timeout=120) raises TimeoutError while the turn
\* is still running in its thread; the thread is not interrupted
FutureTimeout ==
    /\ pc \notin {"idle", "done", "failed"}
    /\ future = "pending"
    /\ future' = "timeout"
    /\ UNCHANGED <<wsVars, convVars, textVars, audioVars, drainVars, pc,
                   engine_in, ws, consumer_task, mp3_task, processing_active,
                   result, chat_result, engine_errors>>

\* lines 128-152: the executor is left when the thread has ended; the caller
\* gets the turn's result, or the failure made of the TimeoutError
Report ==
    /\ pc \in {"done", "failed"}
    /\ chat_result = "none"
    /\ chat_result' = IF future = "pending" /\ result = "success"
                      THEN "success" ELSE "failed"
    /\ UNCHANGED <<wsVars, convVars, textVars, audioVars, drainVars, pc,
                   engine_in, ws, consumer_task, mp3_task, processing_active,
                   result, future, engine_errors>>

\* one whole turn with its three tasks
TtsInit == TurnInit(TurnScripts, MaxFrames)

TtsNext ==
    \/ TurnConnect
    \/ NextDelta
    \/ Synthesize
    \/ StreamEnd
    \/ Finish
    \/ ConsumerJoined
    \/ ConsumerTimeout
    \/ CloseClient
    \/ DrainPoll
    \/ DrainDone
    \/ Mp3Joined
    \/ Mp3JoinTimeout
    \/ Return
    \/ OnAudioDelta
    \/ OnSessionFinished
    \/ OnConnectionClosed
    \/ OnError
    \/ FutureTimeout
    \/ Report
    \/ Mp3Consume
    \/ Mp3Timeout
    \/ Mp3Continue
    \/ Mp3Stop
    \/ Mp3Yielded

TtsSpec == TtsInit /\ [][TtsNext]_vars

----------------------------------------------------------------------------
(* Vocabulary of the properties *)

Registered == SID \in DOMAIN audio_sessions

VlmRegistered == SID \in DOMAIN vlm_sessions

\* the decoded payload of packet seq
Payload(seq) == B64Decode(DataFor(seq)).bytes

\* Payload(1) \o ... \o Payload(n)
RECURSIVE Flushed(_)
Flushed(n) == IF n = 0 THEN <<>> ELSE Flushed(n - 1) \o Payload(n)

\* the session's file exists (open() did not raise)
HasSink(session) == session.filepath \in 1..Len(files)

\* every seq and total a client can put in a well-typed message, valid or not
AnyPackets ==
    UNION {{Packet(s, t, DataFor(s)) : t \in 0..(MaxTotal + 1)}
              : s \in 0..(MaxTotal + 1)}

\* the same with another payload than the one first sent with that seq
AltPackets ==
    {Packet(s, t, DataAlt) : s \in 0..(MaxTotal + 1), t \in 0..(MaxTotal + 1)}

\* the handler's result on m when nothing raises
Handled(m) == HandleAudioMessage(audio_sessions, files, m, 0, FALSE)

\* the session the handler works on: the registered one or a new one
Before == GetOrInitSession(audio_sessions)[SID]

SeqOf(m) == m.fields["seq"].n

TotalOf(m) == m.fields["total"].n

\* a handler result that rejects: one error, nothing changed, no task
Rejects(r) ==
    /\ Len(r.out) = 1
    /\ IsError(r.out[1])
    /\ r.sessions = audio_sessions
    /\ r.files = files
    /\ ~r.start

\* the same vocabulary for the dual endpoint
VlmPayload(data_type, seq) == B64Decode(VlmDataFor(data_type, seq)).bytes

RECURSIVE VlmFlushed(_, _)
VlmFlushed(data_type, n) ==
    IF n = 0 THEN <<>> ELSE VlmFlushed(data_type, n - 1) \o VlmPayload(data_type, n)

VlmAnyPackets ==
    UNION {{VlmPacket(s, t, ty, VlmDataFor(ty, s))
               : t \in 0..(VlmMaxTotal + 1), ty \in DataTypes}
              : s \in 0..(VlmMaxTotal + 1)}

VlmHandled(m) == HandleVlmMessage(vlm_sessions, files, m, 0, FALSE)

VlmBefore == GetOrInitVlmSession(vlm_sessions).sessions[SID]

TypeOf(m) == m.fields["type"].d.body[1]

VlmRejects(r) ==
    /\ Len(r.out) = 1
    /\ IsError(r.out[1])
    /\ r.sessions = vlm_sessions
    /\ r.files = files
    /\ ~r.start

\* the packet_ack events among the events of one call
Acks(events) == SelectSeq(events, IsAck)

NoError(events) == \A i \in 1..Len(events) : ~IsError(events[i])

\* the longest n with 1..n inside S
RECURSIVE PrefixLen(_, _)
PrefixLen(S, n) == IF n + 1 \in S THEN PrefixLen(S, n + 1) ELSE n

----------------------------------------------------------------------------
(* The claims *)

\* C1: when the packets 1..N of one total N were each delivered exactly once
\* to a session, in any order, and nothing else was sent and nothing raised,
\* the transfer is complete and the file holds Payload(1) .. Payload(N) in
\* sequence order; in the dual endpoint the same for each data type.
C1_AnyOrderSameSink ==
    /\ (Registered /\ clean /\ audio_sessions[SID].total_packets # 0
           /\ delivered.audio = 1..audio_sessions[SID].total_packets)
       => /\ audio_sessions[SID].received_count = audio_sessions[SID].total_packets
          /\ audio_sessions[SID].packets = EmptyMap
          /\ files[audio_sessions[SID].filepath].content
                = Flushed(audio_sessions[SID].total_packets)
    /\ \A ty \in DataTypes :
         (VlmRegistered /\ clean /\ vlm_sessions[SID][ty].total # 0
            /\ delivered[ty] = 1..vlm_sessions[SID][ty].total)
         => /\ vlm_sessions[SID][ty].received = vlm_sessions[SID][ty].total
            /\ vlm_sessions[SID][ty].packets = EmptyMap
            /\ vlm_sessions[SID][ty].complete
            /\ files[vlm_sessions[SID][ty].filepath].content
                  = VlmFlushed(ty, vlm_sessions[SID][ty].total)

\* the dual endpoint: both packets of the audio transfer, then both packets
\* of the image transfer with packet 2 arriving before packet 1
C1_Witness ==
    /\ VlmRegistered /\ clean
    /\ delivered = [audio |-> 1..2, image |-> 1..2]
    /\ out = <<VlmPacketAck(1, "image", 2, 2)>>
    /\ files[vlm_sessions[SID].audio.filepath].content = <<65, 66>>
    /\ files[vlm_sessions[SID].image.filepath].content = <<97, 98>>

\* C2: in every state the file of a session holds exactly the payloads of
\* the packets 1 .. expected_seq - 1, in sequence order.
C2_SinkIsFlushedPrefix ==
    (Registered /\ HasSink(audio_sessions[SID]))
    => files[audio_sessions[SID].filepath].content
          = Flushed(audio_sessions[SID].expected_seq - 1)

\* packet 1 arrived last and the buffered packets 2 and 3 were drained after it
C2_Witness ==
    /\ Registered
    /\ out = <<PacketAck(1, 3, 3)>>
    /\ audio_sessions[SID].expected_seq = 4
    /\ files[audio_sessions[SID].filepath].content = Flushed(3)

\* the ways a message of the dual endpoint fails validation; the end signal
\* is not validated
VlmInvalid(m) ==
    \/ m.json # "object"
    \/ /\ ~IsEndSignal(m)
       /\ \/ {"seq", "total", "type", "data"} \ DOMAIN m.fields # {}
          \/ m.fields["seq"].t \notin {"int", "bool"}
          \/ m.fields["total"].t \notin {"int", "bool"}
          \/ m.fields["type"] \notin {WordV("audio"), WordV("image")}
          \/ m.fields["data"].t # "str"
          \/ SeqOf(m) < 1
          \/ SeqOf(m) > TotalOf(m)
          \/ StrLen(m.fields["data"].d) > VLM_MAX_ENCODED
          \/ ~B64Decode(m.fields["data"].d).ok

\* the ways a message fails validation, read off the message itself
Invalid(m) ==
    \/ m.json # "object"
    \/ {"seq", "total", "data"} \ DOMAIN m.fields # {}
    \/ m.fields["seq"].t \notin {"int", "bool"}
    \/ m.fields["total"].t \notin {"int", "bool"}
    \/ m.fields["data"].t # "str"
    \/ SeqOf(m) < 1
    \/ SeqOf(m) > TotalOf(m)
    \/ StrLen(m.fields["data"].d) > AUDIO_MAX_ENCODED
    \/ ~B64Decode(m.fields["data"].d).ok

\* the calls in which open() or a write() may raise
Faults == {<<0, FALSE>>, <<1, FALSE>>, <<2, FALSE>>, <<0, TRUE>>}

\* C3 (as stated): at any time on a connection, a packet whose seq was
\* accepted before on that connection is rejected with an error and changes
\* neither the session nor the file.
C3_Original ==
    \A m \in AnyPackets :
        (conn = "open" /\ endpoint = "audio" /\ SeqOf(m) \in accepted)
        => \A r \in {Handled(m)} : Rejects(r)

\* C3 (amended): while a session is registered, also after its transfer has
\* completed, a packet whose seq that session has flushed (seq <
\* expected_seq) or holds in packets is rejected with an error and changes
\* neither the session nor any file, whatever its total and payload.
C3_DuplicateRejectedInSession ==
    \A m \in AnyPackets \cup AltPackets : \A f \in Faults :
        (/\ Registered
         /\ \/ SeqOf(m) < audio_sessions[SID].expected_seq
            \/ SeqOf(m) \in DOMAIN audio_sessions[SID].packets)
        => \A r \in {HandleAudioMessage(audio_sessions, files, m, f[1], f[2])} :
               Rejects(r)

\* packet 3 was resubmitted while buffered behind the flushed packet 1
C3_Witness ==
    /\ Registered
    /\ op = "message"
    /\ out = <<Error("duplicate", {3})>>
    /\ audio_sessions[SID].expected_seq = 2
    /\ DOMAIN audio_sessions[SID].packets = {3}

\* C4: a packet that is taken (written in order or buffered) by a call in
\* which nothing raises is answered by exactly one packet_ack with its seq,
\* the received count after the call and the session's total, and no error;
\* and while packets of one total arrive without duplicates every call ends
\* in exactly one ack.
C4_AcceptedIsAcked ==
    /\ (conn = "open" /\ endpoint = "audio") =>
         \A m \in AnyPackets :
             ~Invalid(m) =>
             \A r \in {Handled(m)} :
             Took(Before, r.sessions[SID], SeqOf(m))
             => r.out = <<PacketAck(SeqOf(m), r.sessions[SID].received_count,
                                    r.sessions[SID].total_packets)>>
    /\ (endpoint = "audio" /\ op = "message" /\ clean)
         => /\ Len(out) = 1
            /\ IsAck(out[1])
            /\ out[1].seq \in delivered.audio
            /\ Registered => /\ out[1].received = audio_sessions[SID].received_count
                             /\ out[1].total = audio_sessions[SID].total_packets
    /\ (conn = "open" /\ endpoint = "vlm") =>
         \A m \in VlmAnyPackets :
             ~VlmInvalid(m) =>
             \A r \in {VlmHandled(m)} :
             LET ty == TypeOf(m)
             IN  VlmTook(VlmBefore[ty], r.sessions[SID][ty], SeqOf(m))
                 => /\ Acks(r.out)
                         = <<VlmPacketAck(SeqOf(m), ty,
                                          r.sessions[SID][ty].received,
                                          r.sessions[SID][ty].total)>>
                    /\ NoError(r.out)
    /\ (endpoint = "vlm" /\ op = "message" /\ clean)
         => /\ Len(Acks(out)) = 1
            /\ NoError(out)
            /\ Acks(out)[1].seq \in delivered[Acks(out)[1].type]
            /\ VlmRegistered =>
                  LET tr == vlm_sessions[SID][Acks(out)[1].type] IN
                  /\ Acks(out)[1].received = tr.received
                  /\ Acks(out)[1].total = tr.total

\* packet 3 of 3 was buffered after packet 1 had been written
C4_Witness ==
    /\ clean
    /\ op = "message"
    /\ out = <<PacketAck(3, 1, 3)>>
    /\ DOMAIN audio_sessions[SID].packets = {3}

\* C6: the disconnect handler removes the session and closes its file, and
\* the file keeps what was flushed: after a disconnect every file is closed
\* and, when the session was sent distinct packets of one total and nothing
\* raised, its file holds the payloads of the contiguous run 1..n delivered.
C6_DisconnectKeepsFlushed ==
    /\ (conn = "open" /\ endpoint = "audio") =>
         \A d \in {HandleAudioDisconnect(audio_sessions, files)} :
         /\ SID \notin DOMAIN d.sessions
         /\ \A h \in 1..Len(files) :
              ~d.files[h].open /\ d.files[h].content = files[h].content
    /\ (op = "disconnect" /\ endpoint = "audio") =>
         /\ ~Registered
         /\ \A h \in 1..Len(files) : ~files[h].open
         /\ (clean /\ delivered.audio # {})
              => files[Len(files)].content
                    = Flushed(PrefixLen(delivered.audio, 0))
    /\ (conn = "open" /\ endpoint = "vlm") =>
         \A d \in {HandleVlmDisconnect(vlm_sessions, files)} :
         /\ SID \notin DOMAIN d.sessions
         /\ \A h \in 1..Len(files) :
              ~d.files[h].open /\ d.files[h].content = files[h].content
         /\ (VlmRegistered /\ clean) =>
              \A ty \in DataTypes :
                  delivered[ty] # {}
                  => d.files[vlm_sessions[SID][ty].filepath].content
                        = VlmFlushed(ty, PrefixLen(delivered[ty], 0))
    /\ (op = "disconnect" /\ endpoint = "vlm") =>
         /\ ~VlmRegistered
         /\ \A h \in 1..Len(files) : ~files[h].open

\* total 3, packets 1 and 2 delivered, then the connection ended
C6_Witness ==
    /\ op = "disconnect"
    /\ clean
    /\ delivered.audio = {1, 2}
    /\ task = "none"
    /\ files[1].content = Flushed(2)
    /\ files[1].closes = 1

\* a registered session holds the handle h
Held(h) ==
    \/ Registered /\ audio_sessions[SID].file_handle = h
    \/ VlmRegistered /\ \E ty \in DataTypes : vlm_sessions[SID][ty].file_handle = h

\* C7: a file is closed exactly once: it is open with no close() so far
\* exactly while a registered session holds its handle, and has been closed
\* once, never twice, as soon as no session holds it.
C7_SinkReleasedOnce ==
    \A h \in 1..Len(files) :
        /\ files[h].closes <= 1
        /\ files[h].open = (files[h].closes = 0)
        /\ files[h].open = Held(h)

\* the transfer completed (the task runs) and then the connection ended: two
\* release paths ran for the session
C7_Witness ==
    /\ op = "disconnect"
    /\ task = "running"
    /\ Len(files) = 1
    /\ files[1].closes = 1

C9_OtherTotalRejected ==
    (conn = "open" /\ endpoint = "audio") =>
    \A m \in AnyPackets : \A f \in Faults :
        (\/ ~Invalid(m) /\ Before.total_packets = 0
         \/ Registered /\ audio_sessions[SID].total_packets \notin {0, TotalOf(m)})
        =>
        \A r \in {HandleAudioMessage(audio_sessions, files, m, f[1], f[2])} :
        /\ (~Invalid(m) /\ Before.total_packets = 0)
             => r.sessions[SID].total_packets = TotalOf(m)
        /\ (Registered /\ audio_sessions[SID].total_packets
                             \notin {0, TotalOf(m)})
             => /\ Rejects(r)
                /\ ~Invalid(m) => r.out = <<Error("total", {TotalOf(m)})>>

\* once set, total_packets of a registered session stays
C9_TotalFrozen ==
    (Registered /\ SID \in DOMAIN audio_sessions'
        /\ audio_sessions[SID].total_packets # 0)
    => audio_sessions'[SID].total_packets = audio_sessions[SID].total_packets

\* C9: total_packets is set by the first packet of a session and never
\* changes afterwards; a later packet with another total is rejected (with
\* the inconsistent-total error when it is otherwise valid) and leaves the
\* session unchanged.
C9_TotalSetOnce == [](C9_OtherTotalRejected) /\ [][C9_TotalFrozen]_vars

\* a packet announcing total 2 was rejected by a session of total 3
C9_Witness ==
    /\ Registered
    /\ op = "message"
    /\ out = <<Error("total", {2})>>
    /\ audio_sessions[SID].total_packets = 3
    /\ audio_sessions[SID].expected_seq = 2

\* C10: a valid packet ahead of expected_seq is stored in packets and
\* nothing is written; and no key of packets is ever <= expected_seq.
C10_PendingAheadOfExpected ==
    /\ Registered =>
         \A k \in DOMAIN audio_sessions[SID].packets :
             k > audio_sessions[SID].expected_seq
    /\ (conn = "open" /\ endpoint = "audio") =>
         \A m \in AnyPackets : \A wfail \in 0..2 :
             (/\ ~Invalid(m)
              /\ Before.total_packets \in {0, TotalOf(m)}
              /\ Before.total_packets = 0 \/ Before.file_handle # 0
              /\ SeqOf(m) > Before.expected_seq
              /\ SeqOf(m) \notin DOMAIN Before.packets)
             =>
             \A r \in {HandleAudioMessage(audio_sessions, files, m, wfail, FALSE)} :
                 /\ r.sessions[SID].packets
                      = Put(Before.packets, SeqOf(m), m.fields["data"].d)
                 /\ r.sessions[SID].expected_seq = Before.expected_seq
                 /\ r.sessions[SID].received_count = Before.received_count
                 /\ \A h \in 1..Len(r.files) :
                      r.files[h].content
                         = IF h <= Len(files) THEN files[h].content ELSE <<>>
                 /\ r.out = <<PacketAck(SeqOf(m), Before.received_count,
                                        TotalOf(m))>>

\* packet 3 of 3 arrived first: buffered, nothing written
C10_Witness ==
    /\ Registered
    /\ op = "message"
    /\ out = <<PacketAck(3, 0, 3)>>
    /\ DOMAIN audio_sessions[SID].packets = {3}
    /\ files[audio_sessions[SID].filepath].content = <<>>

----------------------------------------------------------------------------
(* Properties of the frame transcoder *)

Threshold == mp3_converter.buffer_size

\* the chunks a kind of call returned: b"" is no chunk
ChunksVia(via) == SelectSeq(chunks, LAMBDA c : c.via = via /\ c.pcm # NoBytes)

\* the raw bytes of the first n returned chunks, in return order
RECURSIVE RawOf(_, _)
RawOf(cs, n) == IF n = 0 THEN NoBytes ELSE BCat(RawOf(cs, n - 1), cs[n].pcm)

FramesWithin(limit) == \A i \in DOMAIN frame_lens : frame_lens[i] <= limit

Flushed1 == conv_pc = "flushed" /\ ~conv_raised

C13_BlockFromFront ==
    ~conv_raised =>
        /\ \A i \in DOMAIN chunks :
             (chunks[i].via = "push" /\ chunks[i].pcm # NoBytes) =>
                 /\ BLen(chunks[i].pcm) = Threshold
                 /\ chunks[i].pcm = BTake(BDrop(pushed, BLen(RawOf(chunks, i - 1))),
                                          Threshold)
        /\ conv_pc = "pushing" =>
             BCat(RawOf(chunks, Len(chunks)), mp3_converter.pcm_buffer) = pushed
        /\ (Threshold = 24000 /\ frame_lens = <<24001>>) =>
             /\ chunks[1] = Returned("push", Mp3(Run(1, 24000)))
             /\ mp3_converter.pcm_buffer =
                    IF conv_pc = "pushing" THEN Run(24001, 24001) ELSE NoBytes
             /\ conv_pc = "flushed" =>
                    chunks = <<Returned("push", Mp3(Run(1, 24000))),
                               Returned("flush", Mp3(Run(24001, 24001)))>>

C13_Witness ==
    /\ Threshold = 24000
    /\ frame_lens = <<24001>>
    /\ conv_pc = "flushed"
    /\ ~conv_raised
    /\ chunks = <<Returned("push", Mp3(Run(1, 24000))),
                  Returned("flush", Mp3(Run(24001, 24001)))>>

----------------------------------------------------------------------------
(* Properties of the text segmentation *)

\* the deltas i..j of the response, concatenated
RECURSIVE Concat(_, _, _)
Concat(ds, i, j) == IF j < i THEN <<>> ELSE Concat(ds, i, j - 1) \o ds[j]

\* the synthesis step of the newest delta has run
Decided == pc = "stream" /\ consumed >= 1

\* the newest delta was sent with the segment it was appended to
FlushedNow == segments # <<>> /\ segments[Len(segments)].last = consumed

\* the running segment as it was when the newest delta had been appended
RunningSegment ==
    IF FlushedNow
    THEN Concat(response, segments[Len(segments)].first, consumed)
    ELSE text_buffer

\* the texts of the input_text_buffer.append events, in the order sent
AppendedTexts ==
    LET appends == SelectSeq(engine_in,
                             LAMBDA e : e.type = "input_text_buffer.append")
    IN  [i \in DOMAIN appends |-> appends[i].text]

HelloWorld == <<"H", "e", "l", "l", "o", " ", "w", "o", "r", "l", "d", ".", " ">>

\* C14 as stated, read in the code's favour (a segment with nothing but
\* whitespace has nothing to send, and the length is the stripped length):
\* the segment is sent and cleared exactly when, after the delta, it holds a
\* sentence ending or has reached 50 characters
C14_Original ==
    Decided =>
        (FlushedNow <=>
            /\ Strip(RunningSegment) # <<>>
            /\ \/ HasEnding(RunningSegment)
               \/ Len(Strip(RunningSegment)) >= SEGMENT_CHARS)

\* C14: after each delta is appended, the running segment is sent to the
\* engine, stripped, and cleared exactly when it is not all whitespace and
\* either the delta just appended holds a sentence ending or the stripped
\* segment has reached 50 characters; otherwise it stays buffered.
\* "Hello world. " is sent at once, and 60 characters without punctuation
\* are sent once 50 are reached
C14_FlushOnEndingOrLength ==
    Decided =>
        /\ FlushedNow <=>
               /\ Strip(RunningSegment) # <<>>
               /\ \/ HasEnding(response[consumed])
                  \/ Len(Strip(RunningSegment)) >= SEGMENT_CHARS
        /\ FlushedNow =>
               /\ text_buffer = <<>>
               /\ engine_in[Len(engine_in)] = InputTextAppend(Strip(RunningSegment))
        /\ ~FlushedNow =>
               /\ text_buffer = Concat(response, consumed - held + 1, consumed)
               /\ held >= 1
        /\ response[consumed] = HelloWorld => FlushedNow
        /\ Len(Strip(RunningSegment)) >= 50 => FlushedNow

C14_Witness ==
    /\ Decided
    /\ response = <<Rep("a", 25), Rep("a", 25), HelloWorld>>
    /\ consumed = 3
    /\ AppendedTexts = <<Rep("a", 50), SubSeq(HelloWorld, 1, 12)>>
    /\ text_buffer = <<>>

C16_SegmentsInOrder ==
    /\ Len(AppendedTexts) = Len(segments)
    /\ \A i \in DOMAIN segments :
         /\ AppendedTexts[i] = segments[i].text
         /\ segments[i].text = Strip(Concat(response, segments[i].first,
                                            segments[i].last))
         /\ 1 <= segments[i].first
         /\ segments[i].first <= segments[i].last
         /\ segments[i].last <= consumed
         /\ i > 1 => segments[i - 1].last + 1 = segments[i].first
    /\ \A i, j \in DOMAIN engine_in :
         (engine_in[i] = SessionUpdate /\ j # i) => i < j

C16_Witness ==
    /\ pc = "wait_consumer"
    /\ response = <<<<".">>, <<"a">>, HelloWorld>>
    /\ Len(segments) = 2
    /\ AppendedTexts = <<<<".">>, <<"a">> \o SubSeq(HelloWorld, 1, 12)>>

----------------------------------------------------------------------------
(* Properties of the audio path of a turn *)

\* the chunks emitted to the client so far
DataEvents == SelectSeq(emitted, LAMBDA e : e.event = "data")

\* the raw bytes under the first n emitted chunks, in emission order
RECURSIVE EmittedRaw(_)
EmittedRaw(n) ==
    IF n = 0 THEN NoBytes ELSE BCat(EmittedRaw(n - 1), DataEvents[n].pcm)

\* the frames waiting in the queue, head first
RECURSIVE QueuedRaw(_)
QueuedRaw(n) ==
    IF n = 0 THEN NoBytes ELSE BCat(QueuedRaw(n - 1), pcm_queue.items[n])

\* the turn's 'finished' event has been emitted
FinishedEmitted == \E i \in DOMAIN emitted : emitted[i] = AudioFinished

\* the drain loop ended by its bound of polls (the test of line 354)
DrainExpired == wait_cycles >= max_wait_cycles

C18_Original ==
    /\ pcm_queue.items # <<>> =>
         /\ pcm_queue.maxsize > 0
         /\ Len(pcm_queue.items) <= pcm_queue.maxsize
    /\ dropped > 0 => pcm_queue.maxsize > 0

C20_FlagClearedAfterDrain ==
    /\ (pc \in {"start", "stream", "synth", "finish", "wait_consumer",
                "close", "drain"}) => processing_active
    /\ (pc # "idle" /\ ~processing_active) =>
         /\ pc \in {"wait_mp3", "return", "done"}
         /\ ws = "closed"
         /\ consumer_task \in {"done", "cancelled"}
         /\ \/ trailing_empty >= EMPTY_POLLS
            \/ wait_cycles >= max_wait_cycles

\* two polls found a frame queued, the next five found the queue empty
C20_Witness ==
    /\ pc = "wait_mp3"
    /\ ~processing_active
    /\ ws = "closed"
    /\ trailing_empty = EMPTY_POLLS
    /\ wait_cycles = EMPTY_POLLS + 2
    /\ arrived # NoBytes

----------------------------------------------------------------------------
(* Properties of the error paths of the transfer endpoints *)

\* C30: a packet with valid seq and total whose encoded payload is longer
\* than the cap is answered by the oversize error alone and changes nothing,
\* also when the payload is not valid base64; the same padding error within
\* the cap is answered by the invalid-encoding error
C30_OversizeBeforeDecode ==
    /\ StrLen(DataOversizeBad) > AUDIO_MAX_ENCODED
    /\ ~B64Decode(DataOversizeBad).ok
    /\ StrLen(VlmDataOversizeBad) > VLM_MAX_ENCODED
    /\ ~B64Decode(VlmDataOversizeBad).ok
    /\ (conn = "open" /\ endpoint = "audio") =>
         /\ \A t \in 1..MaxTotal : \A s \in 1..t :
            \A d \in {DataOversize, DataOversizeBad} : \A f \in Faults :
            \A r \in {HandleAudioMessage(audio_sessions, files,
                                         Packet(s, t, d), f[1], f[2])} :
                /\ Rejects(r)
                /\ r.out = <<Error("size", {})>>
         /\ Handled(Packet(1, 1, DataBadPad)).out = <<Error("base64", {})>>
    /\ (conn = "open" /\ endpoint = "vlm") =>
         /\ \A t \in 1..VlmMaxTotal : \A s \in 1..t : \A ty \in DataTypes :
            \A d \in {VlmDataOversize, VlmDataOversizeBad} : \A f \in Faults :
            \A r \in {HandleVlmMessage(vlm_sessions, files,
                                       VlmPacket(s, t, ty, d), f[1], f[2])} :
                /\ VlmRejects(r)
                /\ r.out = <<Error("size", {})>>
         /\ VlmHandled(VlmPacket(1, 1, "audio", DataBadPad)).out
               = <<Error("base64", {})>>

\* an oversize packet was rejected by a session that holds packet 3
C30_Witness ==
    /\ Registered
    /\ op = "message"
    /\ out = <<Error("size", {})>>
    /\ DOMAIN audio_sessions[SID].packets = {3}
    /\ ~B64Decode(DataOversizeBad).ok

\* a transfer of the dual endpoint is in progress: a packet of the type was
\* written or buffered and the type is not complete
Underway(session, data_type) ==
    /\ \/ session[data_type].received > 0
       \/ DOMAIN session[data_type].packets # {}
    /\ ~session[data_type].complete

\* C24: while the transfer of one type is in progress a valid packet of the
\* other type is answered by one error (the interleaving error, unless its
\* own type is already complete) and is neither written nor buffered,
\* whatever its seq and total; so the two types are never in progress
\* together
C24_NoInterleaving ==
    /\ VlmRegistered =>
         ~(Underway(vlm_sessions[SID], "audio")
             /\ Underway(vlm_sessions[SID], "image"))
    /\ (conn = "open" /\ endpoint = "vlm" /\ VlmRegistered) =>
         \A m \in VlmAnyPackets : \A f \in Faults :
             (~VlmInvalid(m) /\ Underway(vlm_sessions[SID], Other(TypeOf(m))))
             =>
             \A r \in {HandleVlmMessage(vlm_sessions, files, m, f[1], f[2])} :
                 /\ Len(r.out) = 1
                 /\ IsError(r.out[1])
                 /\ ~vlm_sessions[SID][TypeOf(m)].complete
                        => r.out = <<Error("mixed", {})>>
                 /\ \A ty \in DataTypes :
                        r.sessions[SID][ty] = vlm_sessions[SID][ty]
                 /\ r.files = files
                 /\ ~r.start

\* packet 1 of 2 of the audio transfer was accepted, then an image packet
\* was refused
C24_Witness ==
    /\ VlmRegistered
    /\ op = "message"
    /\ out = <<Error("mixed", {})>>
    /\ Underway(vlm_sessions[SID], "audio")
    /\ vlm_sessions[SID].audio.received = 1
    /\ vlm_sessions[SID].image.received = 0
    /\ vlm_sessions[SID].current_data_type = "audio"

\* the calls in which a write() raises: the first write of the call or the
\* second
WriteFaults == {1, 2}

\* C25: in the audio endpoint a call in which write() raises answers with
\* one error, leaves the session without file handle and every file closed,
\* with the content written before the exception; and a session that has
\* lost its handle this way takes no later packet: whatever is sent, the
\* answer is an error and no file changes
C25_WriteErrorAborts ==
    (conn = "open" /\ endpoint = "audio") =>
    /\ \A m \in AnyPackets : \A wfail \in WriteFaults :
       \A r \in {HandleAudioMessage(audio_sessions, files, m, wfail, FALSE)} :
           r.fault =>
               /\ r.out = <<Error("exception", {})>>
               /\ ~r.start
               /\ r.sessions[SID].file_handle = 0
               /\ \A h \in 1..Len(r.files) : ~r.files[h].open
               /\ \A m2 \in AnyPackets \cup AltPackets : \A f \in Faults :
                  \A r2 \in {HandleAudioMessage(r.sessions, r.files, m2,
                                                f[1], f[2])} :
                      /\ Len(r2.out) = 1
                      /\ IsError(r2.out[1])
                      /\ r2.files = r.files
                      /\ r2.sessions = r.sessions
                      /\ ~r2.start
    /\ (Registered /\ audio_sessions[SID].total_packets # 0
           /\ audio_sessions[SID].file_handle = 0) =>
         \A m \in AnyPackets \cup AltPackets : \A f \in Faults :
         \A r \in {HandleAudioMessage(audio_sessions, files, m, f[1], f[2])} :
             /\ Len(r.out) = 1
             /\ IsError(r.out[1])
             /\ r.files = files

\* packet 1 of 3 was written, the write of packet 2 raised, and the packet
\* sent after that was refused
C25_Witness ==
    /\ Registered
    /\ op = "message"
    /\ out = <<Error("handle", {})>>
    /\ audio_sessions[SID].total_packets = 3
    /\ audio_sessions[SID].expected_seq = 2
    /\ audio_sessions[SID].file_handle = 0
    /\ files = <<[content |-> Flushed(1), open |-> FALSE, closes |-> 1]>>

\* C26 as stated: in the dual endpoint a call in which write() raises
\* reports an error for the packet and closes the sink of its type
C26_Original ==
    (conn = "open" /\ endpoint = "vlm") =>
    \A m \in VlmGoodPackets : \A wfail \in WriteFaults :
    \A r \in {HandleVlmMessage(vlm_sessions, files, m, wfail, FALSE)} :
        r.fault =>
            /\ \E i \in 1..Len(r.out) : IsError(r.out[i])
            /\ r.sessions[SID][TypeOf(m)].file_handle = 0
            /\ \A h \in 1..Len(r.files) :
                 h = r.sessions[SID][TypeOf(m)].filepath => ~r.files[h].open

\* C23 as stated: a session whose transfer has completed (its
\* post-processing task was started) is eventually removed from the
\* registry, also when the client stays connected
C23_Original ==
    (endpoint = "audio" /\ Registered /\ task = "running") ~> ~Registered

----------------------------------------------------------------------------
(* Properties of the life cycle of a turn *)

\* the finish signal has been sent to the engine
FinishSent == \E i \in DOMAIN engine_in : engine_in[i] = SessionFinish

\* C21 as stated: when the wait for the consumer task has expired and the
\* task was cancelled, the turn still closes the connection, drains, stops
\* the transcoder, emits 'finished' and ends, and it is not reported as
\* failed
C21_Original ==
    (consumer_task = "cancelled" /\ pc = "done") =>
        /\ ws = "closed"
        /\ ~processing_active
        /\ FinishedEmitted
        /\ result = "success"
        /\ chat_result # "failed"

\* C22 as stated: a turn in which the engine has sent an error event is not
\* reported as successful
C22_Original ==
    engine_errors > 0 => /\ result # "success"
                         /\ chat_result # "success"

\* the position of the main driver in Idle, Connected and Streaming,
\* Draining, Closed
Rank(at) ==
    CASE at \in {"idle", "start"} -> 0
      [] at \in {"stream", "synth"} -> 1
      [] at = "finish" -> 2
      [] at = "wait_consumer" -> 3
      [] at = "close" -> 4
      [] at = "drain" -> 5
      [] at = "wait_mp3" -> 6
      [] at = "return" -> 7
      [] OTHER -> 8

\* the events sent to the engine: session.update first, then segments, and
\* session.finish at most once and last
C27_EngineProtocol ==
    /\ ws = "none" => engine_in = <<>>
    /\ \A i \in DOMAIN engine_in :
         /\ (engine_in[i] = SessionUpdate) = (i = 1)
         /\ engine_in[i] = SessionFinish => i = Len(engine_in)
    /\ Rank(pc) \in 3..7 => FinishSent
    /\ FinishSent => Rank(pc) >= 3
    /\ Rank(pc) <= 2 => consumed >= (IF segments = <<>> THEN 0
                                     ELSE segments[Len(segments)].last)
    /\ ws = "closed" =>
         /\ FinishSent
         /\ consumer_task \in {"done", "cancelled"}
         /\ Rank(pc) >= 5
    /\ Rank(pc) \in 5..7 => ws = "closed"

\* the main driver never goes back, and a step sends a segment only while
\* streaming and the finish signal only after the generator is exhausted
C27_StepForward ==
    /\ Rank(pc') >= Rank(pc)
    /\ engine_in' # engine_in =>
         /\ Len(engine_in') = Len(engine_in) + 1
         /\ SubSeq(engine_in', 1, Len(engine_in)) = engine_in
         /\ engine_in'[Len(engine_in')].type = "input_text_buffer.append"
               => Rank(pc) = 1 /\ ws \notin {"none", "closed"}
         /\ engine_in'[Len(engine_in')] = SessionFinish
               => /\ pc = "finish"
                  /\ consumed = Len(response)
                  /\ ~FinishSent
    /\ (ws' = "closed" /\ ws # "closed") =>
         /\ pc = "close"
         /\ FinishSent
         /\ consumer_task \in {"done", "cancelled"}

\* C27: within a turn the main driver moves only forward through start,
\* streaming, finish signal, wait for the consumer, close, drain and end; no
\* segment is sent before the connection is opened or after the finish
\* signal, the finish signal is sent exactly once, after the last segment,
\* and the connection is closed only after the finish signal and the wait
\* for the consumer task
C27_ForwardOnly == []C27_EngineProtocol /\ [][C27_StepForward]_vars

\* a turn of two deltas and one segment has run to its end
C27_Witness ==
    /\ pc = "done"
    /\ ws = "closed"
    /\ consumer_task = "done"
    /\ engine_in = <<SessionUpdate, InputTextAppend(<<"a", ".">>), SessionFinish>>
    /\ FinishedEmitted

\* C28 as stated: a turn that has opened the engine connection has released
\* it when it ends, with success or with a failure
C28_Original ==
    (pc \in {"done", "failed"} /\ engine_in # <<>>) => ws # "open"

\* C29 as stated: while the flag is set the transcoder loop is running,
\* waiting for a frame or about to test the flag
C29_Original ==
    (LoopRunning /\ processing_active) => mp3_task \in {"wait", "check"}

----------------------------------------------------------------------------
(* Properties of the dual endpoint *)

\* C31 as stated: on the dual endpoint an audio packet longer than the
\* audio cap is rejected as oversize, and an image packet of the same length
\* is not
C31_Original ==
    /\ StrLen(DataOversize) > AUDIO_MAX_ENCODED
    /\ StrLen(DataOversize) <= VLM_MAX_ENCODED
    /\ (conn = "open" /\ endpoint = "vlm") =>
         /\ \A r \in {VlmHandled(VlmPacket(1, 1, "audio", DataOversize))} :
                /\ VlmRejects(r)
                /\ r.out = <<Error("size", {})>>
         /\ \A r \in {VlmHandled(VlmPacket(1, 1, "image", DataOversize))} :
                r.out # <<Error("size", {})>>

\* the errors of a packet that passed validation and was refused by the
\* session: interleaving, other total, no file handle, duplicate or stale
RejectKinds == {"mixed", "total", "handle", "duplicate"}

\* C32 as stated: a valid packet that the session of the dual endpoint
\* refuses leaves the session as it was, current data type included, and
\* the files too
C32_Original ==
    (conn = "open" /\ endpoint = "vlm" /\ VlmRegistered) =>
        \A m \in VlmAnyPackets :
        \A r \in {VlmHandled(m)} :
            (/\ ~VlmInvalid(m)
             /\ Len(r.out) = 1
             /\ IsError(r.out[1])
             /\ r.out[1].kind \in RejectKinds)
            => /\ r.sessions = vlm_sessions
               /\ r.files = files
               /\ ~r.start

\* C33 as stated: the end signal starts post-processing when the audio
\* transfer and the image transfer of the session are both complete, and
\* otherwise it is answered by one error and starts nothing
C33_Original ==
    (conn = "open" /\ endpoint = "vlm" /\ VlmRegistered) =>
        \A r \in {VlmHandled(EndSignal)} :
            IF /\ vlm_sessions[SID].audio.complete
               /\ vlm_sessions[SID].image.complete
            THEN r.start /\ NoError(r.out)
            ELSE /\ ~r.start
                 /\ Len(r.out) = 1
                 /\ IsError(r.out[1])

----------------------------------------------------------------------------
(* Properties of the counters of a transfer *)

\* C34: in every session received_count is expected_seq - 1 and at most
\* total_packets, and the packets held in packets are not counted; the same
\* for each data type of the dual endpoint
C34_CountIsFlushed ==
    /\ Registered =>
         \A session \in {audio_sessions[SID]} :
             /\ session.received_count = session.expected_seq - 1
             /\ session.received_count <= session.total_packets
             /\ HasSink(session) =>
                  files[session.filepath].content = Flushed(session.received_count)
    /\ VlmRegistered =>
         \A ty \in DataTypes : \A tr \in {vlm_sessions[SID][ty]} :
             /\ tr.received = tr.expected_seq - 1
             /\ tr.received <= tr.total

\* packets 3 and 2 of 3 are buffered and nothing is counted
C34_Witness ==
    /\ Registered
    /\ DOMAIN audio_sessions[SID].packets = {2, 3}
    /\ audio_sessions[SID].total_packets = 3
    /\ audio_sessions[SID].received_count = 0
    /\ audio_sessions[SID].expected_seq = 1
    /\ out = <<PacketAck(2, 0, 3)>>

\* C35: when received_count equals total_packets no packet is left in
\* packets, and no message, whatever was sent before, is answered by the
\* incomplete-transfer error
C35_NothingLeftAtCompletion ==
    /\ Registered =>
         \A session \in {audio_sessions[SID]} :
             session.received_count = session.total_packets
                 => DOMAIN session.packets = {}
    /\ \A i \in DOMAIN out : ~(IsError(out[i]) /\ out[i].kind = "incomplete")
    /\ (conn = "open" /\ endpoint = "audio") =>
         \A m \in AnyPackets \cup AltPackets : \A f \in Faults :
         \A r \in {HandleAudioMessage(audio_sessions, files, m, f[1], f[2])} :
             \A i \in DOMAIN r.out :
                 ~(IsError(r.out[i]) /\ r.out[i].kind = "incomplete")

\* packets 1 and 3 of 3 came first, packet 2 closed the gap and completed
\* the transfer
C35_Witness ==
    /\ Registered
    /\ op = "message"
    /\ out = <<PacketAck(2, 3, 3)>>
    /\ audio_sessions[SID].received_count = audio_sessions[SID].total_packets
    /\ DOMAIN audio_sessions[SID].packets = {}
    /\ started = 1

\* C36: a session whose received_count has reached total_packets has no
\* file handle and its file is closed, every further message is answered by
\* one error that changes nothing and starts no task, and one task at most
\* was started for the session
C36_CompletedOnce ==
    /\ Registered => started <= 1
    /\ (Registered /\ audio_sessions[SID].total_packets > 0
          /\ audio_sessions[SID].received_count = audio_sessions[SID].total_packets)
       => /\ audio_sessions[SID].file_handle = 0
          /\ HasSink(audio_sessions[SID])
          /\ ~files[audio_sessions[SID].filepath].open
          /\ started = 1
          /\ conn = "open" =>
               \A m \in Messages \cup AnyPackets \cup AltPackets : \A f \in Faults :
               \A r \in {HandleAudioMessage(audio_sessions, files, m, f[1], f[2])} :
                   Rejects(r)

\* the transfer of two packets is complete and packet 2 was sent again
C36_Witness ==
    /\ Registered
    /\ audio_sessions[SID].total_packets = 2
    /\ audio_sessions[SID].received_count = 2
    /\ started = 1
    /\ op = "message"
    /\ Len(out) = 1
    /\ IsError(out[1])
    /\ task # "none"

\* C37 as stated: one post-processing task at most is started for a session
\* of the dual endpoint, however many end signals it is sent
C37_Original == VlmRegistered => started <= 1

----------------------------------------------------------------------------
(* Conservation of the generated text *)

\* the generator is exhausted and what was left has been dealt with
StreamingEnded == pc \notin {"idle", "start", "stream", "synth", "failed"}

\* the sent segments that hold delta d
Holding(d) == {i \in DOMAIN segments : segments[i].first <= d /\ d <= segments[i].last}

\* the number of deltas the sent segments reach
Covered == IF segments = <<>> THEN 0 ELSE segments[Len(segments)].last

RECURSIVE Flat(_)
Flat(texts) == IF texts = <<>> THEN <<>> ELSE Head(texts) \o Flat(Tail(texts))

\* s without its whitespace characters
NoWhitespace(s) == SelectSeq(s, LAMBDA c : c \notin Whitespace)

\* C38 as stated: when streaming has ended the sent segments are the
\* stripped texts of runs of deltas, and every delta of the response is in
\* exactly one of them
C38_Original ==
    StreamingEnded =>
        /\ assistant_response = Concat(response, 1, Len(response))
        /\ Len(AppendedTexts) = Len(segments)
        /\ \A i \in DOMAIN segments :
             AppendedTexts[i] = Strip(Concat(response, segments[i].first,
                                             segments[i].last))
        /\ \A d \in DOMAIN response : Cardinality(Holding(d)) = 1

\* C38: when streaming has ended the sent segments are, in order, the
\* stripped texts of consecutive runs of deltas that start at the first
\* delta; no delta is in two segments, and the deltas after the last sent
\* segment hold nothing but whitespace, so that the sent text and the
\* response differ by whitespace only
C38_TextConserved ==
    StreamingEnded =>
        /\ assistant_response = Concat(response, 1, Len(response))
        /\ Len(AppendedTexts) = Len(segments)
        /\ \A i \in DOMAIN segments :
             AppendedTexts[i] = Strip(Concat(response, segments[i].first,
                                             segments[i].last))
        /\ \A d \in DOMAIN response :
             Cardinality(Holding(d)) = IF d <= Covered THEN 1 ELSE 0
        /\ Strip(Concat(response, Covered + 1, Len(response))) = <<>>
        /\ NoWhitespace(Flat(AppendedTexts)) = NoWhitespace(assistant_response)

\* "a", "." and " " were generated: "a." was sent and the blank was not
C38_Witness ==
    /\ StreamingEnded
    /\ response = <<<<"a">>, <<".">>, <<" ">>>>
    /\ AppendedTexts = <<<<"a", ".">>>>
    /\ Covered = 2
    /\ text_buffer = <<" ">>

----------------------------------------------------------------------------
(* The end of the audio stream *)

\* the positions of the 'finished' events among the emitted events
FinishedAt == {i \in DOMAIN emitted : emitted[i] = AudioFinished}

\* at most one 'finished' event is emitted, nothing is emitted after it, it
\* is emitted after the transcoder task has ended or been cancelled, and a
\* turn that returned success has emitted it
C39_FinishedState ==
    /\ Cardinality(FinishedAt) <= 1
    /\ FinishedAt \subseteq {Len(emitted)}
    /\ FinishedAt # {} =>
         /\ mp3_task \in {"done", "failed", "cancelled"}
         /\ pc \in {"return", "done"}
    /\ result = "success" => FinishedAt = {Len(emitted)}

\* no step emits anything once 'finished' has been emitted
C39_FinishedStep == FinishedAt # {} => emitted' = emitted

\* C39: a turn that returns success has emitted exactly one 'finished'
\* event, as the last of its audio_stream events, also when the wait for
\* the transcoder task expired and the task was cancelled
C39_FinishedOnceAndLast == []C39_FinishedState /\ [][C39_FinishedStep]_vars

\* the wait for the transcoder task expired after its last chunk, the task
\* was cancelled and the turn returned success
C39_Witness ==
    /\ pc = "done"
    /\ result = "success"
    /\ mp3_task = "cancelled"
    /\ Len(emitted) >= 2
    /\ emitted[Len(emitted)] = AudioFinished
    /\ emitted[Len(emitted) - 1].event = "data"

----------------------------------------------------------------------------
(* The registry under the disconnect handler and the background task *)

\* C40 as stated: when the background task of the audio endpoint, having
\* found the session in the registry, comes to delete it, the session is
\* still there, whatever the disconnect handler did in between
C40_Original == (endpoint = "audio" /\ task = "del") => Registered

====
